---- MODULE Spec2Model ----
(***************************************************************************)
(* Resource admission layer and 5min buy/sell state machines of the        *)
(* dual-timeframe trading bot.                                             *)
(*                                                                         *)
(*   capital_allocator.py   CapitalAllocator  (allocate / release)         *)
(*   order_queue.py         OrderQueue        (request_order / mark_filled *)
(*                                             / cancel_order / add_order) *)
(*   position_manager.py    PositionManager                                *)
(*   cooldown_tracker.py    CooldownTracker                                *)
(*   pattern_detector_5min.py, buy_monitor_5min.py, sell_monitor_5min.py   *)
(*                                                                         *)
(* Every method of the four managers runs under the manager's own lock, so *)
(* each call is one atomic action; callers interleave between calls.       *)
(* Money is counted in whole USDC: the configured pools (500) divide       *)
(* evenly by the slot ceilings (2), so pool / max_positions is exact.      *)
(***************************************************************************)
EXTENDS Integers, Sequences, FiniteSets, TLC

VARIABLES
    allocations,      \* CapitalAllocator.allocations_1min / allocations_5min
    alloc_call,       \* the last CapitalAllocator.allocate call and its return value
    pending_orders,   \* OrderQueue.pending_orders, in insertion order
    executed_orders,  \* OrderQueue.executed_orders
    queue_ret,        \* what the last OrderQueue.request_order call returned
    queue_log,        \* history: the request_order calls since construction
    queue_log_ok,     \* FALSE once queue_log is no longer the whole history
    positions,        \* PositionManager.positions_1min / positions_5min
    cooldowns,        \* CooldownTracker.cooldowns_1min / cooldowns_5min
    buy_monitor,      \* per asset: the BuyMonitor5Min fields
    sell_monitor,     \* per asset: the SellMonitor5Min fields
    db,               \* per asset: the candles stored in its 5min database
    calc              \* the input and the result of one function evaluation

vars == <<allocations, alloc_call, pending_orders, executed_orders, queue_ret,
          queue_log, queue_log_ok, positions, cooldowns, buy_monitor,
          sell_monitor, db, calc>>

----------------------------------------------------------------------------
(* Bounds of the model *)

NumAssets == 3
MaxLog == 3
MaxExecuted == 3

AssetNames == <<"A", "B", "C", "D", "E">>
Assets == {AssetNames[i] : i \in 1..NumAssets}
Timeframes == {"1min", "5min"}
Scores == {10, 20, 30}
Prices == {1, 2}

----------------------------------------------------------------------------
(* config.py *)

total_capital == 1000
max_positions_1min == 2
max_positions_5min == 2
allocation_percent_1min == 50
allocation_percent_5min == 50
cooldown_enabled == FALSE
cooldown_1min_candles == 2
cooldown_5min_candles == 1
allow_same_asset_both_timeframes == FALSE
ema_max_positions_1min == 2
ema_max_positions_5min == 2
immediate_buy_enabled == TRUE
hammer_abort_enabled == TRUE

MaxPositions(timeframe) ==
    IF timeframe = "1min" THEN max_positions_1min ELSE max_positions_5min

----------------------------------------------------------------------------
(* Dictionaries: functions whose domain is the set of keys present *)

EmptyDict == [k \in {} |-> 0]

DictSet(d, k, v) == [x \in (DOMAIN d) \cup {k} |-> IF x = k THEN v ELSE d[x]]

DictDel(d, k) == [x \in (DOMAIN d) \ {k} |-> d[x]]

RECURSIVE SumOver(_, _)
SumOver(d, keys) ==
    IF keys = {} THEN 0
    ELSE LET k == CHOOSE x \in keys : TRUE
         IN  d[k] + SumOver(d, keys \ {k})

SumValues(d) == SumOver(d, DOMAIN d)

Min(a, b) == IF a <= b THEN a ELSE b

----------------------------------------------------------------------------
(* capital_allocator.py *)

capital_1min == (total_capital * allocation_percent_1min) \div 100
capital_5min == (total_capital * allocation_percent_5min) \div 100

Pool(timeframe) == IF timeframe = "1min" THEN capital_1min ELSE capital_5min

\* A faulty allocate: the slot share is handed out without looking at the headroom.
allocate_capital_no_headroom(allocs, pool, max_positions, symbol) ==
    IF symbol \in DOMAIN allocs THEN 0 ELSE pool \div max_positions

\* A faulty allocate: the test for an existing allocation is missing.
allocate_capital_no_exists_check(allocs, pool, max_positions, symbol) ==
    Min(pool \div max_positions, pool - SumValues(allocs))

\* allocate: the capital returned for symbol given the timeframe's dict.
allocate_capital(allocs, pool, max_positions, symbol) ==
    IF symbol \in DOMAIN allocs
    THEN 0
    ELSE LET allocated == SumValues(allocs)
             available == pool - allocated
             capital_per_position == pool \div max_positions
         IN  Min(capital_per_position, available)

\* allocate: the timeframe's dict afterwards (recorded only if capital > 0).
allocate_record(allocs, symbol, capital) ==
    IF capital > 0 THEN DictSet(allocs, symbol, capital) ELSE allocs

release_record(allocs, symbol) ==
    IF symbol \in DOMAIN allocs THEN DictDel(allocs, symbol) ELSE allocs

can_allocate(timeframe) ==
    LET allocated == SumValues(allocations[timeframe])
        available == Pool(timeframe) - allocated
    IN  available >= Pool(timeframe) \div MaxPositions(timeframe)

OthersUnchangedByAllocator ==
    UNCHANGED <<pending_orders, executed_orders, queue_ret, queue_log,
                queue_log_ok, positions, cooldowns, buy_monitor, sell_monitor,
                db, calc>>

allocate(symbol, timeframe) ==
    LET capital == allocate_capital(allocations[timeframe], Pool(timeframe),
                                    MaxPositions(timeframe), symbol)
    IN  /\ allocations' = [allocations EXCEPT ![timeframe] =
                              allocate_record(@, symbol, capital)]
        /\ alloc_call' = [symbol |-> symbol, timeframe |-> timeframe,
                          ret |-> capital]
        /\ OthersUnchangedByAllocator

release(symbol, timeframe) ==
    /\ allocations' = [allocations EXCEPT ![timeframe] = release_record(@, symbol)]
    /\ UNCHANGED alloc_call
    /\ OthersUnchangedByAllocator

----------------------------------------------------------------------------
(* order_queue.py *)

\* PendingOrder: symbol, price and beauty_score (timestamp and candle are
\* payload copied next to price and never read by the queue).
PendingOrder(symbol, price, beauty_score) ==
    [symbol |-> symbol, price |-> price, beauty_score |-> beauty_score]

PendingSymbols(pending) == {pending[i].symbol : i \in 1..Len(pending)}

\* request_order: the for-loop over pending_orders.items(), from entry i on;
\* yields the list of losers.
RECURSIVE collision_losers(_, _, _, _, _)
collision_losers(pending, i, symbol, winner_score, losers) ==
    IF i > Len(pending) THEN losers
    ELSE IF pending[i].beauty_score > winner_score
         THEN collision_losers(pending, i + 1, symbol,
                               pending[i].beauty_score, Append(losers, symbol))
         ELSE collision_losers(pending, i + 1, symbol,
                               winner_score, Append(losers, pending[i].symbol))

SeqElems(s) == {s[i] : i \in 1..Len(s)}

RemoveSymbols(pending, symbols) ==
    SelectSeq(pending, LAMBDA o : o.symbol \notin symbols)

\* A faulty request_order: the losers of a collision are left in pending_orders.
request_order_keeps_losers(pending, symbol, price, beauty_score) ==
    IF symbol \in PendingSymbols(pending)
    THEN [ret |-> "REJECTED_EXISTS", pending |-> pending]
    ELSE LET losers == SeqElems(collision_losers(pending, 1, symbol,
                                                 beauty_score, <<>>))
         IN  IF symbol \in losers
             THEN [ret |-> "REJECTED_COLLISION", pending |-> pending]
             ELSE [ret |-> "APPROVED",
                   pending |-> Append(pending,
                                      PendingOrder(symbol, price, beauty_score))]

\* A faulty request_order: the comparison of the scores is turned around.
request_order_lowest_wins(pending, symbol, price, beauty_score) ==
    IF symbol \in PendingSymbols(pending)
    THEN [ret |-> "REJECTED_EXISTS", pending |-> pending]
    ELSE IF Len(pending) > 0 /\ \E i \in 1..Len(pending) :
                                   pending[i].beauty_score < beauty_score
         THEN [ret |-> "REJECTED_COLLISION", pending |-> pending]
         ELSE [ret |-> "APPROVED",
               pending |-> <<PendingOrder(symbol, price, beauty_score)>>]

\* A faulty request_order: the order that came first keeps the slot.
request_order_first_come(pending, symbol, price, beauty_score) ==
    IF symbol \in PendingSymbols(pending)
    THEN [ret |-> "REJECTED_EXISTS", pending |-> pending]
    ELSE IF Len(pending) > 0
         THEN [ret |-> "REJECTED_COLLISION", pending |-> pending]
         ELSE [ret |-> "APPROVED",
               pending |-> <<PendingOrder(symbol, price, beauty_score)>>]

\* request_order: the value returned and pending_orders afterwards.
request_order_result(pending, symbol, price, beauty_score) ==
    IF symbol \in PendingSymbols(pending)
    THEN [ret |-> "REJECTED_EXISTS", pending |-> pending]
    ELSE LET losers == IF Len(pending) > 0
                       THEN SeqElems(collision_losers(pending, 1, symbol,
                                                      beauty_score, <<>>))
                       ELSE {}
             kept == RemoveSymbols(pending, losers)
         IN  IF symbol \in losers
             THEN [ret |-> "REJECTED_COLLISION", pending |-> kept]
             ELSE [ret |-> "APPROVED",
                   pending |-> Append(kept,
                                      PendingOrder(symbol, price, beauty_score))]

\* mark_filled and cancel_order: pending_orders afterwards.
mark_filled_result(pending, symbol) == RemoveSymbols(pending, {symbol})

cancel_order_result(pending, symbol) == RemoveSymbols(pending, {symbol})

\* History kept beside the queue: the request_order calls made so far, as long
\* as they are the only calls that touched pending_orders and fit into MaxLog.
LogRequest(symbol, beauty_score, ret) ==
    IF queue_log_ok /\ Len(queue_log) < MaxLog
    THEN /\ queue_log' = Append(queue_log, [symbol |-> symbol,
                                            beauty_score |-> beauty_score,
                                            ret |-> ret])
         /\ queue_log_ok' = TRUE
    ELSE /\ queue_log' = <<>>
         /\ queue_log_ok' = FALSE

LogOtherCall ==
    /\ queue_log' = <<>>
    /\ queue_log_ok' = FALSE

OthersUnchangedByQueue ==
    UNCHANGED <<allocations, alloc_call, executed_orders, positions, cooldowns,
                buy_monitor, sell_monitor, db, calc>>

request_order(symbol, price, beauty_score) ==
    LET r == request_order_result(pending_orders, symbol, price, beauty_score)
    IN  /\ pending_orders' = r.pending
        /\ queue_ret' = r.ret
        /\ LogRequest(symbol, beauty_score, r.ret)
        /\ OthersUnchangedByQueue

mark_filled(symbol) ==
    /\ pending_orders' = mark_filled_result(pending_orders, symbol)
    /\ LogOtherCall
    /\ UNCHANGED queue_ret
    /\ OthersUnchangedByQueue

cancel_order(symbol) ==
    /\ pending_orders' = cancel_order_result(pending_orders, symbol)
    /\ LogOtherCall
    /\ UNCHANGED queue_ret
    /\ OthersUnchangedByQueue

----------------------------------------------------------------------------
(* State after construction: BotOrchestrator.__init__ builds one             *)
(* PositionManager, one CapitalAllocator, one OrderQueue and one             *)
(* CooldownTracker, and per asset one BuyMonitor5Min with its SellMonitor5Min *)

BuyMonitorInit ==
    [is_monitoring |-> FALSE, monitor_count |-> 0, limit_orders |-> <<>>,
     bought |-> FALSE, pattern_type |-> "None"]

SellMonitorInit == [is_monitoring |-> FALSE]

InitBot ==
    /\ allocations = [tf \in Timeframes |-> EmptyDict]
    /\ alloc_call = [symbol |-> "None", timeframe |-> "None", ret |-> 0]
    /\ pending_orders = <<>>
    /\ executed_orders = <<>>
    /\ queue_ret = "NONE"
    /\ queue_log = <<>>
    /\ queue_log_ok = TRUE
    /\ positions = [tf \in Timeframes |-> EmptyDict]
    /\ cooldowns = [tf \in Timeframes |-> EmptyDict]
    /\ buy_monitor = [a \in Assets |-> BuyMonitorInit]
    /\ sell_monitor = [a \in Assets |-> SellMonitorInit]
    /\ db = [a \in Assets |-> <<>>]

\* no function evaluated
NoCalc == [fn |-> "None"]

Init == InitBot /\ calc = NoCalc

----------------------------------------------------------------------------
(* The CapitalAllocator under arbitrary callers *)

NextAllocator ==
    \E symbol \in Assets, timeframe \in Timeframes :
        \/ allocate(symbol, timeframe)
        \/ release(symbol, timeframe)

SpecAllocator == Init /\ [][NextAllocator]_vars

(* The OrderQueue under arbitrary callers *)

NextQueue ==
    \E symbol \in Assets :
        \/ \E price \in Prices, beauty_score \in Scores :
               request_order(symbol, price, beauty_score)
        \/ mark_filled(symbol)
        \/ cancel_order(symbol)

SpecQueue == Init /\ [][NextQueue]_vars

----------------------------------------------------------------------------
(* position_manager.py: one PositionManager shared by both timeframes;
   positions[timeframe] is the dict positions_1min / positions_5min *)

Position(capital, pattern_type) ==
    [status |-> "BUY_MONITORING", capital_allocated |-> capital,
     pattern_type |-> pattern_type]

can_add_position(pos, symbol, timeframe) ==
    IF /\ ~allow_same_asset_both_timeframes
       /\ (symbol \in DOMAIN pos["1min"] \/ symbol \in DOMAIN pos["5min"])
    THEN "ASSET_ALREADY_ACTIVE"
    ELSE IF Cardinality(DOMAIN pos[timeframe]) >= MaxPositions(timeframe)
         THEN IF timeframe = "1min" THEN "NO_SLOTS_1MIN" ELSE "NO_SLOTS_5MIN"
         ELSE "OK"

\* add_position returns False, and adds nothing, only when the symbol is
\* already in the dict of that timeframe
add_position(pos, symbol, timeframe, capital, pattern_type) ==
    IF symbol \in DOMAIN pos[timeframe]
    THEN pos
    ELSE [pos EXCEPT ![timeframe] = DictSet(@, symbol, Position(capital, pattern_type))]

update_status(pos, symbol, timeframe, status) ==
    IF symbol \in DOMAIN pos[timeframe]
    THEN [pos EXCEPT ![timeframe][symbol].status = status]
    ELSE pos

remove_position(pos, symbol, timeframe) ==
    IF symbol \in DOMAIN pos[timeframe]
    THEN [pos EXCEPT ![timeframe] = DictDel(@, symbol)]
    ELSE pos

has_position(pos, symbol, timeframe) == symbol \in DOMAIN pos[timeframe]

count_positions(pos, timeframe) == Cardinality(DOMAIN pos[timeframe])

count_positions_by_pattern(pos, timeframe, pattern_type) ==
    Cardinality({s \in DOMAIN pos[timeframe] :
                     pos[timeframe][s].pattern_type = pattern_type})

(* cooldown_tracker.py *)

CooldownCandles(timeframe) ==
    IF timeframe = "1min" THEN cooldown_1min_candles ELSE cooldown_5min_candles

start_cooldown(cd, symbol, timeframe) ==
    [cd EXCEPT ![timeframe] = DictSet(@, symbol, CooldownCandles(timeframe))]

cooldown_process_candle(cd, symbol, timeframe) ==
    IF symbol \in DOMAIN cd[timeframe]
    THEN IF cd[timeframe][symbol] - 1 <= 0
         THEN [cd EXCEPT ![timeframe] = DictDel(@, symbol)]
         ELSE [cd EXCEPT ![timeframe][symbol] = @ - 1]
    ELSE cd

is_in_cooldown(cd, symbol, timeframe) == symbol \in DOMAIN cd[timeframe]

----------------------------------------------------------------------------
(* The 5min worker of one asset: PatternDetector5Min.check_pattern is called
   once per closed 5min candle of the asset and dispatches to its sell
   monitor, its buy monitor or pattern detection.  The websocket thread
   delivers candles one at a time, so each call is one atomic step.  What a
   candle's prices and indicators decide is an input of the step. *)

\* CooldownTracker state after step 0 of check_pattern
CooldownStep(a) == cooldown_process_candle(cooldowns, a, "5min")

\* A faulty dispatch: an active sell monitor does not keep the candle from
\* pattern detection
Dispatch_ignores_sell_monitor(a) ==
    IF is_in_cooldown(CooldownStep(a), a, "5min")
    THEN IF buy_monitor[a].is_monitoring THEN "BUY" ELSE "NONE"
    ELSE IF buy_monitor[a].is_monitoring THEN "BUY"
    ELSE "DETECT"

\* which branch of check_pattern handles the candle
Dispatch(a) ==
    IF is_in_cooldown(CooldownStep(a), a, "5min")
    THEN IF buy_monitor[a].is_monitoring THEN "BUY" ELSE "NONE"
    ELSE IF sell_monitor[a].is_monitoring THEN "SELL"
    ELSE IF buy_monitor[a].is_monitoring THEN "BUY"
    ELSE "DETECT"

QueueUntouched == UNCHANGED <<pending_orders, queue_ret, queue_log, queue_log_ok>>

AllocatorUntouched == UNCHANGED <<allocations, alloc_call>>

(* sell_monitor_5min.py *)

\* SellMonitor5Min._execute_sell: the position is removed, a cooldown starts
\* if enabled, the sell monitor stops
execute_sell(a) ==
    /\ positions' = remove_position(positions, a, "5min")
    /\ cooldowns' = IF cooldown_enabled
                    THEN start_cooldown(CooldownStep(a), a, "5min")
                    ELSE CooldownStep(a)
    /\ sell_monitor' = [sell_monitor EXCEPT ![a].is_monitoring = FALSE]

\* SellMonitor5Min.process_candle: some exit condition fires, or none does
sell_process_candle(a, exit) ==
    /\ IF exit
       THEN execute_sell(a)
       ELSE /\ cooldowns' = CooldownStep(a)
            /\ UNCHANGED <<positions, sell_monitor>>
    /\ UNCHANGED <<buy_monitor, executed_orders>>
    /\ QueueUntouched
    /\ AllocatorUntouched

SellCandle(a) ==
    /\ Dispatch(a) = "SELL"
    /\ \E exit \in BOOLEAN : sell_process_candle(a, exit)

(* buy_monitor_5min.py: the EMA-momentum entry *)

ema_capital_per_position ==
    ((total_capital * allocation_percent_5min) \div 100) \div ema_max_positions_5min

start_monitoring_ema(a) ==
    buy_monitor' = [buy_monitor EXCEPT ![a] =
        [is_monitoring |-> TRUE, monitor_count |-> 0, limit_orders |-> <<>>,
         bought |-> FALSE, pattern_type |-> "EMA5min"]]

\* PatternDetector5Min._check_and_start_ema_pattern, for a candle on which
\* check_ema_momentum_pattern found the pattern
check_and_start_ema_pattern(a) ==
    /\ Dispatch(a) = "DETECT"
    /\ cooldowns' = CooldownStep(a)
    /\ IF count_positions_by_pattern(positions, "5min", "EMA5min") >= ema_max_positions_5min
       THEN UNCHANGED buy_monitor
       ELSE start_monitoring_ema(a)
    /\ UNCHANGED <<positions, sell_monitor, executed_orders>>
    /\ QueueUntouched
    /\ AllocatorUntouched

\* BuyMonitor5Min._execute_ema_entry; SellMonitor5Min.start_monitoring, which
\* it calls, sets the position's status to SELL_MONITORING
execute_ema_entry(a) ==
    /\ IF has_position(positions, a, "5min")
       THEN /\ buy_monitor' = [buy_monitor EXCEPT ![a].is_monitoring = FALSE]
            /\ UNCHANGED <<positions, executed_orders, sell_monitor>>
       ELSE /\ Len(executed_orders) < MaxExecuted
            /\ positions' = update_status(
                   add_position(positions, a, "5min",
                                ema_capital_per_position, "EMA5min"),
                   a, "5min", "SELL_MONITORING")
            /\ executed_orders' = Append(executed_orders, a)
            /\ buy_monitor' = [buy_monitor EXCEPT ![a].bought = TRUE,
                                                  ![a].is_monitoring = FALSE]
            /\ sell_monitor' = [sell_monitor EXCEPT ![a].is_monitoring = TRUE]
    /\ cooldowns' = CooldownStep(a)
    /\ QueueUntouched
    /\ AllocatorUntouched

\* BuyMonitor5Min.process_candle while monitoring an EMA pattern
BuyCandleEma(a) ==
    /\ Dispatch(a) = "BUY"
    /\ ~(buy_monitor[a].bought /\ sell_monitor[a].is_monitoring)
    /\ buy_monitor[a].pattern_type = "EMA5min"
    /\ execute_ema_entry(a)

(* The 1min worker: buy_monitor.py and sell_monitor.py are not among the
   source files; it is modelled from the specification's words: an entry is
   admitted by CanAdd and paired with an allocation, an exit with a release. *)

Enter1min(a) ==
    LET capital == allocate_capital(allocations["1min"], Pool("1min"),
                                    MaxPositions("1min"), a)
    IN /\ can_add_position(positions, a, "1min") = "OK"
       /\ capital > 0
       /\ allocations' = [allocations EXCEPT !["1min"] = allocate_record(@, a, capital)]
       /\ alloc_call' = [symbol |-> a, timeframe |-> "1min", ret |-> capital]
       /\ positions' = update_status(
              add_position(positions, a, "1min", capital, "3BULL_1min"),
              a, "1min", "SELL_MONITORING")
       /\ UNCHANGED <<cooldowns, buy_monitor, sell_monitor, executed_orders>>
       /\ QueueUntouched

Exit1min(a) ==
    /\ has_position(positions, a, "1min")
    /\ positions' = remove_position(positions, a, "1min")
    /\ allocations' = [allocations EXCEPT !["1min"] = release_record(@, a)]
    /\ UNCHANGED <<alloc_call, cooldowns, buy_monitor, sell_monitor, executed_orders>>
    /\ QueueUntouched

(* The bot as configured: 2BULL detection on 5min is disabled
   (PATTERN_2BULL.enabled), EMA-momentum detection is enabled *)

Next ==
    \E a \in Assets :
        \/ SellCandle(a) /\ UNCHANGED <<db, calc>>
        \/ BuyCandleEma(a) /\ UNCHANGED <<db, calc>>
        \/ check_and_start_ema_pattern(a) /\ UNCHANGED <<db, calc>>
        \/ Enter1min(a) /\ UNCHANGED <<db, calc>>
        \/ Exit1min(a) /\ UNCHANGED <<db, calc>>

Spec == Init /\ [][Next]_vars

----------------------------------------------------------------------------
(* buy_monitor_5min.py: monitoring after a 2BULL pattern.  The methods of
   BuyMonitor5Min are functions of a record w of what they read and write:
   bm the monitor's fields, sm its sell monitor's is_monitoring, pos the
   PositionManager dicts, pending the OrderQueue's pending_orders,
   queue_called whether cancel_order or mark_filled was called, fill_price
   the price of the order that _check_limit_fill popped (0 for none),
   pattern_candles the reference candles by name (c1 and c2 the pair the
   cycle started with, candle the one being processed), ret the value
   returned.  A candle has its prices in ticks of 0.01 and shape: for
   a bearish candle the outcome of the tests the method makes on its prices,
   volume and MACD, for a bullish candle the outcome of the tests that
   follow the wick and marubozu tests (beauty score of [C2, candle],
   recursive 2BULL pattern).  BeautyScorer.calculate gives at most 90 on
   two candles, so no bullish candle has the shape PERFECT_BEAUTY. *)

max_monitor == 2

marubozu_min_gain_percent == 1

\* 100.00
candle_open == 100 * 100

BullishShapes == {"RECURSIVE", "RECURSIVE_INVALID", "WEAK"}

BearishShapes ==
    {"HAMMER", "WICK_REJECTION", "BEARISH_MARUBOZU", "LOW_VOLUME_MACD_OK",
     "MACD_FAILED", "HIGH_VOLUME"}

BullishCandles ==
    { [is_bullish |-> TRUE, open |-> candle_open, close |-> c,
       high |-> c + uw, low |-> candle_open - lw, shape |-> s] :
          c \in {10040, 10100}, uw \in {0, 210}, lw \in {2, 3},
          s \in BullishShapes }

BearishCandles ==
    { [is_bullish |-> FALSE, open |-> candle_open, close |-> 9900,
       high |-> candle_open + uw, low |-> 9900, shape |-> s] :
          uw \in {0, 210}, s \in BearishShapes }

Candles == BullishCandles \cup BearishCandles

WellFormed(candle) ==
    candle.shape \in (IF candle.is_bullish THEN BullishShapes ELSE BearishShapes)

World(a) ==
    [bm |-> buy_monitor[a], sm |-> sell_monitor[a].is_monitoring,
     pos |-> positions, pending |-> pending_orders,
     queue_called |-> FALSE, fill_price |-> 0,
     pattern_candles |-> <<"c1", "c2">>, ret |-> "None"]

bm_start_monitoring(bm) ==
    [bm EXCEPT !.is_monitoring = TRUE, !.monitor_count = 0, !.limit_orders = <<>>,
               !.bought = FALSE, !.pattern_type = "2BULL_5min"]

bm_stop_monitoring(w, a) ==
    LET cancel == w.bm.limit_orders # <<>>
        pending_limit == /\ has_position(w.pos, a, "5min")
                         /\ w.pos["5min"][a].status = "LIMIT_PENDING"
    IN [w EXCEPT
          !.pending = IF cancel THEN cancel_order_result(@, a) ELSE @,
          !.queue_called = IF cancel THEN TRUE ELSE @,
          !.pos = IF pending_limit THEN remove_position(@, a, "5min") ELSE @,
          !.bm.is_monitoring = IF ~w.sm THEN FALSE ELSE @]

bm_abort_monitoring(w, a, reason) ==
    [bm_stop_monitoring(w, a) EXCEPT !.ret = "ABORT_" \o reason]

\* A faulty admission test: always approved
check_capital_commitment_always_approves(pos) == "APPROVED"

check_capital_commitment(pos) ==
    IF count_positions(pos, "5min") >= max_positions_5min
    THEN "POSITION_LIMIT_REACHED"
    ELSE "APPROVED"

\* A faulty _check_limit_fill: the buy monitor goes on monitoring after the
\* fill
bm_check_limit_fill_keeps_monitoring(w, a, candle) ==
    IF w.bm.limit_orders # <<>> /\ candle.high >= w.bm.limit_orders[1]
    THEN [w EXCEPT
            !.bm.limit_orders = Tail(@),
            !.bm.bought = TRUE,
            !.fill_price = w.bm.limit_orders[1],
            !.pos = update_status(@, a, "5min", "SELL_MONITORING"),
            !.pending = mark_filled_result(@, a),
            !.queue_called = TRUE,
            !.sm = TRUE,
            !.ret = "BUY_FILLED"]
    ELSE [w EXCEPT !.ret = "None"]

\* BuyMonitor5Min._check_limit_fill
bm_check_limit_fill(w, a, candle) ==
    IF w.bm.limit_orders # <<>> /\ candle.high >= w.bm.limit_orders[1]
    THEN [w EXCEPT
            !.bm.limit_orders = Tail(@),
            !.bm.bought = TRUE,
            !.fill_price = w.bm.limit_orders[1],
            !.pos = update_status(@, a, "5min", "SELL_MONITORING"),
            !.pending = mark_filled_result(@, a),
            !.queue_called = TRUE,
            !.sm = TRUE,
            !.bm.is_monitoring = FALSE,
            !.ret = "BUY_FILLED"]
    ELSE [w EXCEPT !.ret = "None"]

bm_execute_immediate_buy(w, a, reason) ==
    IF check_capital_commitment(w.pos) # "APPROVED"
    THEN bm_abort_monitoring(w, a, check_capital_commitment(w.pos))
    ELSE [w EXCEPT
            !.bm.bought = TRUE,
            !.pos = update_status(add_position(@, a, "5min", 0, "None"),
                                  a, "5min", "SELL_MONITORING"),
            !.sm = TRUE,
            !.bm.is_monitoring = FALSE,
            !.ret = "IMMEDIATE_BUY_" \o reason]

\* A faulty wick test: rejection only above 3 x body
wick_rejection_above_3(candle) ==
    LET body_size == IF candle.close >= candle.open
                     THEN candle.close - candle.open
                     ELSE candle.open - candle.close
        upper_wick == candle.high - candle.close
    IN  upper_wick > 3 * body_size

\* A faulty marubozu test: no lower wick tolerated
almost_marubozu_no_tolerance(candle) ==
    /\ candle.high - candle.close = 0
    /\ candle.open - candle.low = 0
    /\ (candle.close - candle.open) * 100
           >= marubozu_min_gain_percent * candle.open

\* upper_wick > 2 * body_size
wick_rejection(candle) ==
    LET body_size == IF candle.close >= candle.open
                     THEN candle.close - candle.open
                     ELSE candle.open - candle.close
        upper_wick == candle.high - candle.close
    IN  upper_wick > 2 * body_size

\* upper_wick == 0 and lower_wick <= 0.02 * body_size, with
\* gain_percent = (close - open) / open * 100 >= marubozu_min_gain_percent
almost_marubozu(candle) ==
    LET body_size == IF candle.close >= candle.open
                     THEN candle.close - candle.open
                     ELSE candle.open - candle.close
        upper_wick == candle.high - candle.close
        lower_wick == candle.open - candle.low
    IN  /\ upper_wick = 0
        /\ 50 * lower_wick <= body_size
        /\ (candle.close - candle.open) * 100
               >= marubozu_min_gain_percent * candle.open

\* A faulty recursive restart: the order is cancelled and the cycle goes on
\* with the count and the reference candles it had
bm_process_bullish_candle_1_no_restart(w, a, candle) ==
    IF wick_rejection(candle)
    THEN bm_abort_monitoring(w, a, "WICK_REJECTION")
    ELSE IF almost_marubozu(candle) /\ immediate_buy_enabled
    THEN bm_execute_immediate_buy(w, a, "MARUBOZU")
    ELSE CASE candle.shape = "PERFECT_BEAUTY" /\ immediate_buy_enabled ->
                 bm_execute_immediate_buy(w, a, "PERFECT_BEAUTY")
           [] candle.shape = "RECURSIVE" ->
                 [w EXCEPT !.pending = cancel_order_result(@, a),
                           !.queue_called = TRUE,
                           !.ret = "RECURSIVE_RESTART"]
           [] candle.shape = "RECURSIVE_INVALID" ->
                 bm_abort_monitoring(w, a, "RECURSIVE_PATTERN_FAILED")
           [] OTHER -> bm_abort_monitoring(w, a, "WEAK_CONTINUATION")

bm_process_bullish_candle_1(w, a, candle) ==
    IF wick_rejection(candle)
    THEN bm_abort_monitoring(w, a, "WICK_REJECTION")
    ELSE IF almost_marubozu(candle) /\ immediate_buy_enabled
    THEN bm_execute_immediate_buy(w, a, "MARUBOZU")
    ELSE CASE candle.shape = "PERFECT_BEAUTY" /\ immediate_buy_enabled ->
                 bm_execute_immediate_buy(w, a, "PERFECT_BEAUTY")
           [] candle.shape = "RECURSIVE" ->
                 [w EXCEPT !.pending = cancel_order_result(@, a),
                           !.queue_called = TRUE,
                           !.bm = bm_start_monitoring(@),
                           !.pattern_candles = <<@[2], "candle">>,
                           !.ret = "RECURSIVE_RESTART"]
           [] candle.shape = "RECURSIVE_INVALID" ->
                 bm_abort_monitoring(w, a, "RECURSIVE_PATTERN_FAILED")
           [] OTHER -> bm_abort_monitoring(w, a, "WEAK_CONTINUATION")

bm_process_bearish_candle_1(w, a, candle) ==
    CASE candle.shape = "WICK_REJECTION" -> bm_abort_monitoring(w, a, "WICK_REJECTION")
      [] candle.shape = "BEARISH_MARUBOZU" -> bm_abort_monitoring(w, a, "BEARISH_MARUBOZU")
      [] candle.shape = "LOW_VOLUME_MACD_OK" ->
            IF check_capital_commitment(w.pos) # "APPROVED"
            THEN bm_abort_monitoring(w, a, check_capital_commitment(w.pos))
            ELSE [w EXCEPT
                    !.bm.limit_orders = <<candle.high>>,
                    !.pos = update_status(add_position(@, a, "5min", 0, "None"),
                                          a, "5min", "LIMIT_PENDING"),
                    !.ret = "None"]
      [] candle.shape = "MACD_FAILED" -> bm_abort_monitoring(w, a, "MACD_FAILED")
      [] OTHER -> bm_abort_monitoring(w, a, "HIGH_VOLUME_DIP")

\* A faulty candle 2: any candle below the limit moves the limit to its high
bm_process_counted_moves_on_bullish(w, a, candle) ==
    IF ~candle.is_bullish /\ hammer_abort_enabled /\ candle.shape = "HAMMER"
    THEN bm_abort_monitoring(w, a, "HAMMER_WEAKNESS")
    ELSE IF w.bm.monitor_count = 1
    THEN IF candle.is_bullish
         THEN bm_process_bullish_candle_1(w, a, candle)
         ELSE bm_process_bearish_candle_1(w, a, candle)
    ELSE IF w.bm.monitor_count = 2
    THEN IF w.bm.limit_orders = <<>>
         THEN bm_abort_monitoring(w, a, "NO_LIMIT_ORDER")
         ELSE IF candle.high >= w.bm.limit_orders[1]
         THEN bm_check_limit_fill(w, a, candle)
         ELSE [w EXCEPT !.bm.limit_orders = <<candle.high>>, !.ret = "None"]
    ELSE IF w.bm.monitor_count = 3
    THEN IF w.bm.limit_orders = <<>>
         THEN bm_abort_monitoring(w, a, "NO_LIMIT_ORDER")
         ELSE IF candle.is_bullish /\ candle.high >= w.bm.limit_orders[1]
         THEN bm_check_limit_fill(w, a, candle)
         ELSE bm_abort_monitoring(w, a, "FINAL_CANDLE_FAILED")
    ELSE [w EXCEPT !.ret = "None"]

\* the part of process_candle after monitor_count += 1
bm_process_counted(w, a, candle) ==
    IF ~candle.is_bullish /\ hammer_abort_enabled /\ candle.shape = "HAMMER"
    THEN bm_abort_monitoring(w, a, "HAMMER_WEAKNESS")
    ELSE IF w.bm.monitor_count = 1
    THEN IF candle.is_bullish
         THEN bm_process_bullish_candle_1(w, a, candle)
         ELSE bm_process_bearish_candle_1(w, a, candle)
    ELSE IF w.bm.monitor_count = 2
    THEN IF w.bm.limit_orders = <<>>
         THEN bm_abort_monitoring(w, a, "NO_LIMIT_ORDER")
         ELSE IF candle.high >= w.bm.limit_orders[1]
         THEN bm_check_limit_fill(w, a, candle)
         ELSE IF ~candle.is_bullish
         THEN [w EXCEPT !.bm.limit_orders = <<candle.high>>, !.ret = "None"]
         ELSE [w EXCEPT !.ret = "None"]
    ELSE IF w.bm.monitor_count = 3
    THEN IF w.bm.limit_orders = <<>>
         THEN bm_abort_monitoring(w, a, "NO_LIMIT_ORDER")
         ELSE IF candle.is_bullish /\ candle.high >= w.bm.limit_orders[1]
         THEN bm_check_limit_fill(w, a, candle)
         ELSE bm_abort_monitoring(w, a, "FINAL_CANDLE_FAILED")
    ELSE [w EXCEPT !.ret = "None"]

\* A faulty process_candle: the timeout is tested before the limit fill
bm_process_candle_timeout_first(w, a, candle) ==
    IF w.bm.monitor_count >= max_monitor
    THEN bm_abort_monitoring(w, a, "TIMEOUT")
    ELSE IF bm_check_limit_fill(w, a, candle).ret = "BUY_FILLED"
    THEN bm_check_limit_fill(w, a, candle)
    ELSE bm_process_counted([w EXCEPT !.bm.monitor_count = @ + 1], a, candle)

\* A faulty process_candle: the timeout comes one candle late
bm_process_candle_late_timeout(w, a, candle) ==
    IF bm_check_limit_fill(w, a, candle).ret = "BUY_FILLED"
    THEN bm_check_limit_fill(w, a, candle)
    ELSE IF w.bm.monitor_count > max_monitor
    THEN bm_abort_monitoring(w, a, "TIMEOUT")
    ELSE bm_process_counted([w EXCEPT !.bm.monitor_count = @ + 1], a, candle)

\* BuyMonitor5Min.process_candle while monitoring a 2BULL pattern
bm_process_candle(w, a, candle) ==
    IF bm_check_limit_fill(w, a, candle).ret = "BUY_FILLED"
    THEN bm_check_limit_fill(w, a, candle)
    ELSE IF w.bm.monitor_count >= max_monitor
    THEN bm_abort_monitoring(w, a, "TIMEOUT")
    ELSE bm_process_counted([w EXCEPT !.bm.monitor_count = @ + 1], a, candle)

\* check_pattern passing a candle to the buy monitor of a 2BULL pattern;
\* calc records the call and what process_candle returned
BuyCandle2BullOn(a, candle) ==
    /\ Dispatch(a) = "BUY"
    /\ ~(buy_monitor[a].bought /\ sell_monitor[a].is_monitoring)
    /\ buy_monitor[a].pattern_type # "EMA5min"
    /\ LET w == bm_process_candle(World(a), a, candle)
       IN /\ buy_monitor' = [buy_monitor EXCEPT ![a] = w.bm]
          /\ calc' = [fn |-> "process_candle", symbol |-> a,
                      is_bullish |-> candle.is_bullish, ret |-> w.ret,
                      fill_price |-> w.fill_price,
                      pattern_candles |-> w.pattern_candles]
          /\ sell_monitor' = [sell_monitor EXCEPT ![a].is_monitoring = w.sm]
          /\ positions' = w.pos
          /\ pending_orders' = w.pending
          /\ IF w.queue_called
             THEN LogOtherCall
             ELSE UNCHANGED <<queue_log, queue_log_ok>>
    /\ cooldowns' = CooldownStep(a)
    /\ UNCHANGED <<queue_ret, executed_orders>>
    /\ AllocatorUntouched

BuyCandle2Bull(a) ==
    \E candle \in Candles : WellFormed(candle) /\ BuyCandle2BullOn(a, candle)

\* BuyMonitor5Min.start_monitoring(c1, c2, beauty_score, avg_volume) for a
\* detected 2BULL pattern, under the slot test of
\* PatternDetector5Min._check_2bull_pattern.  The method is taken as called
\* with the parameters it declares: the call in _check_2bull_pattern passes
\* keyword arguments it does not declare (pattern_candles, pattern_gain, ...),
\* which raises TypeError before the method body runs.
start_monitoring(a) ==
    /\ Dispatch(a) = "DETECT"
    /\ count_positions_by_pattern(positions, "5min", "2BULL_5min") < max_positions_5min
    /\ buy_monitor' = [buy_monitor EXCEPT ![a] = bm_start_monitoring(@)]
    /\ cooldowns' = CooldownStep(a)
    /\ UNCHANGED <<positions, sell_monitor, executed_orders>>
    /\ QueueUntouched
    /\ AllocatorUntouched

(* The 5min workers with 2BULL detection switched on (PATTERN_2BULL.enabled)
   and EMA-momentum detection switched off (EMA_MOMENTUM.enabled) *)

NextTwoBull ==
    \E a \in Assets :
        \/ start_monitoring(a) /\ UNCHANGED <<db, calc>>
        \/ BuyCandle2Bull(a) /\ UNCHANGED db
        \/ SellCandle(a) /\ UNCHANGED <<db, calc>>

SpecTwoBull == Init /\ [][NextTwoBull]_vars

----------------------------------------------------------------------------
(* stream_processor.py and database.py: the klines of an asset's 5min stream.
   A stored candle is known by its open time; db[a] lists the open times
   stored for asset a in the order of the table's timestamp index. *)

MaxOpenTime == 2

\* candles in one hour of wall-clock time
CandlesPerHour == 3

OpenTimes == 1..MaxOpenTime

\* time_converter.timestamp_to_vienna_str: the wall-clock label
\* '%Y%m%d_%H%M' of an open time in Europe/Vienna, without the UTC offset.
\* Open times count candles; 1..CandlesPerHour is the last hour of summer
\* time, after which the wall clock is set back by one hour.
timestamp_to_vienna_str(open_time) ==
    IF open_time > CandlesPerHour THEN open_time - CandlesPerHour
    ELSE open_time

candle_exists(candles, open_time) ==
    \E i \in 1..Len(candles) :
        timestamp_to_vienna_str(candles[i]) = timestamp_to_vienna_str(open_time)

\* Database.add_candle: nothing is stored if the candle's timestamp exists;
\* the table is read in the order of its timestamps
add_candle(candles, open_time) ==
    IF candle_exists(candles, open_time)
    THEN candles
    ELSE SelectSeq(candles, LAMBDA t :
             timestamp_to_vienna_str(t) < timestamp_to_vienna_str(open_time))
         \o <<open_time>>
         \o SelectSeq(candles, LAMBDA t :
             timestamp_to_vienna_str(t) > timestamp_to_vienna_str(open_time))

\* check_pattern on a candle that starts, continues and ends nothing: the
\* asset is in cooldown, or neither pattern is found
NoPattern(a) ==
    /\ Dispatch(a) \in {"NONE", "DETECT"}
    /\ cooldowns' = CooldownStep(a)
    /\ UNCHANGED <<positions, buy_monitor, sell_monitor, executed_orders>>
    /\ QueueUntouched
    /\ AllocatorUntouched

\* StreamProcessor.process_kline for a closed 5m kline: add_candle, then
\* check_pattern on the most recent stored candle
process_kline(a, open_time) ==
    /\ db' = [db EXCEPT ![a] = add_candle(@, open_time)]
    /\ UNCHANGED calc
    /\ \/ SellCandle(a)
       \/ BuyCandleEma(a)
       \/ check_and_start_ema_pattern(a)
       \/ NoPattern(a)

(* The bot as configured, fed by the kline stream *)

NextStream ==
    \E a \in Assets, open_time \in OpenTimes : process_kline(a, open_time)

SpecStream == Init /\ [][NextStream]_vars

----------------------------------------------------------------------------
(* database.py and gap_recovery.py: the indicator pipeline.  Prices and
   indicators are exact fractions [num, den] in lowest terms. *)

RECURSIVE GCD(_, _)
GCD(x, y) == IF y = 0 THEN x ELSE GCD(y, x % y)

Abs(x) == IF x < 0 THEN -x ELSE x

Frac(n, d) ==
    LET g == GCD(Abs(n), d)
    IN  [num |-> n \div g, den |-> d \div g]

FracAdd(x, y) ==
    LET l == (x.den \div GCD(x.den, y.den)) * y.den
    IN  Frac(x.num * (l \div x.den) + y.num * (l \div y.den), l)

FracSub(x, y) == FracAdd(x, [num |-> -y.num, den |-> y.den])

\* (k / m) * x
FracMul(k, m, x) == Frac(k * x.num, m * x.den)

Zero == Frac(0, 1)

None == [num |-> 0, den |-> 0]

\* Database._update_ema: alpha = 2 / (period + 1)
db_update_ema(prev_ema, price, period) ==
    IF prev_ema = None THEN price
    ELSE FracAdd(FracMul(2, period + 1, price),
                 FracMul(period - 1, period + 1, prev_ema))

\* the row the table's "ORDER BY timestamp DESC LIMIT 1" returns
latest_row(rows) ==
    CHOOSE r \in rows : \A q \in rows : q.timestamp <= r.timestamp

\* Database._calculate_indicators
db_calculate_indicators(rows, current_close) ==
    IF rows = {}
    THEN [ema9 |-> current_close, ema20 |-> current_close,
          ema300 |-> current_close, ema12 |-> current_close,
          ema26 |-> current_close, dif |-> Zero, dea |-> Zero,
          macd_hist |-> Zero]
    ELSE LET prev == latest_row(rows)
             ema12 == db_update_ema(prev.ema12, current_close, 12)
             ema26 == db_update_ema(prev.ema26, current_close, 26)
             dif == FracSub(ema12, ema26)
             dea == db_update_ema(prev.dea, dif, 9)
         IN  [ema9 |-> db_update_ema(prev.ema9, current_close, 9),
              ema20 |-> db_update_ema(prev.ema20, current_close, 20),
              ema300 |-> db_update_ema(prev.ema300, current_close, 300),
              ema12 |-> ema12, ema26 |-> ema26, dif |-> dif, dea |-> dea,
              macd_hist |-> FracSub(dif, dea)]

Row(candle, indicators) ==
    [open_time |-> candle.open_time,
     timestamp |-> timestamp_to_vienna_str(candle.open_time),
     close |-> candle.close,
     ema9 |-> indicators.ema9, ema20 |-> indicators.ema20,
     ema300 |-> indicators.ema300, ema12 |-> indicators.ema12,
     ema26 |-> indicators.ema26, dif |-> indicators.dif,
     dea |-> indicators.dea, macd_hist |-> indicators.macd_hist]

Indicators(row) ==
    [ema9 |-> row.ema9, ema20 |-> row.ema20, ema300 |-> row.ema300,
     ema12 |-> row.ema12, ema26 |-> row.ema26, dif |-> row.dif,
     dea |-> row.dea, macd_hist |-> row.macd_hist]

row_exists(rows, open_time) ==
    \E r \in rows : r.timestamp = timestamp_to_vienna_str(open_time)

\* Database.add_candle, with the indicator columns
add_candle_row(rows, candle) ==
    IF row_exists(rows, candle.open_time) THEN rows
    ELSE rows \cup {Row(candle, db_calculate_indicators(rows, candle.close))}

\* Database.add_candle_with_indicators
add_candle_with_indicators(rows, candle, indicators) ==
    IF row_exists(rows, candle.open_time) THEN rows
    ELSE rows \cup {Row(candle, indicators)}

\* GapRecovery._update_ema
gap_update_ema(prev_ema, price, period) ==
    FracAdd(FracMul(2, period + 1, price),
            FracMul(period - 1, period + 1, prev_ema))

\* GapRecovery._calculate_indicators_sequential
calculate_indicators_sequential(current_close, ema_chain) ==
    LET ema12 == gap_update_ema(ema_chain.ema12, current_close, 12)
        ema26 == gap_update_ema(ema_chain.ema26, current_close, 26)
        dif == FracSub(ema12, ema26)
        dea == gap_update_ema(ema_chain.dea, dif, 9)
    IN  [ema9 |-> gap_update_ema(ema_chain.ema9, current_close, 9),
         ema20 |-> gap_update_ema(ema_chain.ema20, current_close, 20),
         ema300 |-> gap_update_ema(ema_chain.ema300, current_close, 300),
         ema12 |-> ema12, ema26 |-> ema26, dif |-> dif, dea |-> dea,
         macd_hist |-> FracSub(dif, dea)]

\* GapRecovery.recover_gap: the EMA chain taken from the last stored candle
ema_chain_of(row) ==
    [ema9 |-> row.ema9, ema20 |-> row.ema20, ema300 |-> row.ema300,
     ema12 |-> row.ema12, ema26 |-> row.ema26, dea |-> row.dea]

\* number of missing candles replayed
MaxGap == 2

\* closing prices of the candles
MaxClose == 3

Closes == {Frac(c, 1) : c \in 1..MaxClose}

\* Two databases in the same state (one stored candle), and the missing
\* candles that follow it, oldest first.  appended is fed by add_candle,
\* recovered by the loop of recover_gap; yielded lists the indicators the
\* loop computed for each candle.
IndicatorInputs ==
    {LET rows == add_candle_row({}, [open_time |-> t0, close |-> c0])
     IN  [fn |-> "recover_gap",
          appended |-> rows,
          recovered |-> rows,
          ema_chain |-> ema_chain_of(latest_row(rows)),
          missing_candles |->
              [i \in 1..MaxGap |-> [open_time |-> t0 + i, close |-> cs[i]]],
          yielded |-> <<>>] :
     t0 \in 1..CandlesPerHour, c0 \in Closes, cs \in [1..MaxGap -> Closes]}

InitIndicators == InitBot /\ calc \in IndicatorInputs

\* one candle of the gap: appended to the one database by add_candle, and
\* passed through one iteration of recover_gap's loop into the other
ReplayCandle ==
    /\ calc.fn = "recover_gap"
    /\ Len(calc.yielded) < Len(calc.missing_candles)
    /\ LET candle_data == calc.missing_candles[Len(calc.yielded) + 1]
           indicators == calculate_indicators_sequential(candle_data.close,
                                                         calc.ema_chain)
       IN  calc' = [calc EXCEPT
                      !.appended = add_candle_row(@, candle_data),
                      !.recovered = add_candle_with_indicators(@, candle_data,
                                                               indicators),
                      !.ema_chain = ema_chain_of(indicators),
                      !.yielded = Append(@, indicators)]
    /\ UNCHANGED <<allocations, alloc_call, pending_orders, executed_orders,
                   queue_ret, queue_log, queue_log_ok, positions, cooldowns,
                   buy_monitor, sell_monitor, db>>

NextIndicators == ReplayCandle

SpecIndicators == InitIndicators /\ [][NextIndicators]_vars

----------------------------------------------------------------------------
(* beauty_scorer.py: the beauty score of a candle window.  Prices are in
   ticks of 0.1, scores in hundredths of a point (the precision of
   round(., 2)). *)

VOLUME_WEIGHT == 25
GAPLESS_WEIGHT == 25

SumSeq(f, n) == SumOver(f, 1..n)

\* BeautyScorer._calculate_volatility: per candle 10 points if the wick
\* share (tr - body) / tr * 100 is <= 20, 5 points if <= 30
calculate_volatility(candles) ==
    LET pts(c) ==
            LET tr == c.high - c.low
                body == Abs(c.close - c.open)
            IN  IF tr > 0
                THEN IF (tr - body) * 100 <= 20 * tr THEN 10 * 100
                     ELSE IF (tr - body) * 100 <= 30 * tr THEN 5 * 100
                     ELSE 0
                ELSE 10 * 100
    IN  SumSeq([i \in 1..Len(candles) |-> pts(candles[i])], Len(candles))

\* BeautyScorer._calculate_volume
calculate_volume(candles) ==
    LET pairs == Len(candles) - 1
        pts_per_step == (VOLUME_WEIGHT * 100) \div pairs
    IN  SumSeq([i \in 1..pairs |->
                   IF candles[i + 1].turnover >= candles[i].turnover
                   THEN pts_per_step ELSE 0], pairs)

\* BeautyScorer._calculate_gapless
calculate_gapless(candles) ==
    LET pairs == Len(candles) - 1
        pts_per_step == (GAPLESS_WEIGHT * 100) \div pairs
    IN  SumSeq([i \in 1..pairs |->
                   IF candles[i + 1].open >= candles[i].close
                   THEN pts_per_step ELSE 0], pairs)

\* BeautyScorer._calculate_gain: gain = (l_close - f_open) / f_open * 100,
\* compared with GAIN_MIN 0.5, GAIN_MAX 2.5, 0.75 and 1.0
calculate_gain(candles) ==
    LET f_open == candles[1].open
        l_close == candles[Len(candles)].close
        gain100 == (l_close - f_open) * 10000
    IN  IF gain100 <= 50 * f_open THEN 0
        ELSE IF gain100 > 250 * f_open THEN 0
        ELSE IF gain100 <= 75 * f_open THEN 5 * 100
        ELSE IF gain100 <= 100 * f_open THEN 10 * 100
        ELSE 20 * 100

\* BeautyScorer.calculate
calculate(candles) ==
    IF Len(candles) < 2 THEN 0
    ELSE calculate_volatility(candles) + calculate_volume(candles)
         + calculate_gapless(candles) + calculate_gain(candles)

\* candles of a window: open, close, the two wicks and the turnover
ScoredCandles ==
    {[open |-> o, close |-> c, high |-> c + uw, low |-> o - lw,
      turnover |-> t] :
     o \in {1000, 1010}, c \in {1010, 1020}, uw \in {0, 2, 5},
     lw \in {0, 2}, t \in {8000, 9000}}

InitBeauty ==
    /\ InitBot
    /\ \E c1 \in ScoredCandles, c2 \in ScoredCandles :
          calc = [fn |-> "calculate", candles |-> <<c1, c2>>,
                  scored |-> FALSE, total_score |-> 0]

Calculate ==
    /\ calc.fn = "calculate"
    /\ ~calc.scored
    /\ calc' = [calc EXCEPT !.scored = TRUE,
                            !.total_score = calculate(calc.candles)]
    /\ UNCHANGED <<allocations, alloc_call, pending_orders, executed_orders,
                   queue_ret, queue_log, queue_log_ok, positions, cooldowns,
                   buy_monitor, sell_monitor, db>>

NextBeauty == Calculate

SpecBeauty == InitBeauty /\ [][NextBeauty]_vars

----------------------------------------------------------------------------
(* sell_monitor_5min.py: the exit decision of one asset's sell monitor (the
   monitors of different assets share nothing but the position slots).
   Prices are in ticks of 0.01,
   percentages are exact fractions.  A sell monitor is a record of the
   fields of SellMonitor5Min that process_candle reads and writes, with the
   two switches of config.py that add an exit condition
   (auto_exit_large_bearish, reduce_tp_on_warning) and the switch of the
   cooldown that _execute_sell reads (TRADING.cooldown_enabled) left open,
   and with the switch recovery_mode_enabled as config.py sets it unless a
   specification says otherwise.  A candle has
   its prices, is_large (CandleSizeAnalyzer.check_bearish_size) and severity
   (what _detect_reversal_patterns reports, 0 for no warning). *)

tp_percent_orig == 6
sl_percent_orig == 3
stagnation_candles == 5
max_candles == 12
recovery_tp == Frac(25, 100)
spike_trigger == Frac(15, 10)
quick_exit_threshold == Frac(25, 100)
exit_min_profit == Frac(5, 10)
commission_percent == Frac(75, 1000)
recovery_mode_enabled == TRUE
quick_exit_enabled == TRUE
reversal_enabled == TRUE
auto_exit_on_danger == TRUE

\* price * (1 + percent / 100)
price_plus(price, percent) ==
    (price * (100 * percent.den + percent.num)) \div (100 * percent.den)

\* (close - entry_price) / entry_price * 100 >= percent
pnl_at_least(entry_price, close, percent) ==
    (close - entry_price) * 100 * percent.den >= percent.num * entry_price

SellMonitorIdle(large_bearish, reduce_tp, cooldown) ==
    [is_monitoring |-> FALSE, entry_price |-> 0, entry_candle_count |-> 0,
     tp_price |-> 0, sl_price |-> 0, recovery_mode |-> FALSE,
     exit_reason |-> "None", exit_price |-> 0, trade_result |-> Zero,
     auto_exit_large_bearish |-> large_bearish,
     reduce_tp_on_warning |-> reduce_tp,
     cooldown_enabled |-> cooldown,
     recovery_mode_enabled |-> recovery_mode_enabled]

\* SellMonitor5Min.start_monitoring with the fixed stop loss
sm_start_monitoring(sm, entry_price) ==
    [sm EXCEPT !.is_monitoring = TRUE,
               !.entry_price = entry_price,
               !.entry_candle_count = 0,
               !.recovery_mode = FALSE,
               !.sl_price = price_plus(entry_price, Frac(-sl_percent_orig, 1)),
               !.tp_price = price_plus(entry_price, Frac(tp_percent_orig, 1))]

\* A faulty commission: the exit side is charged on the entry value
net_pnl_percent_flat_fee(entry_price, exit_price) ==
    FracSub(Frac((exit_price - entry_price) * 100, entry_price),
            FracAdd(commission_percent, commission_percent))

\* SellMonitor5Min._calculate_commission: net_pnl_percent
net_pnl_percent(entry_price, exit_price) ==
    LET gross_pnl_percent == Frac((exit_price - entry_price) * 100, entry_price)
        entry_commission_percent == commission_percent
        exit_commission_percent == FracMul(exit_price, entry_price,
                                           commission_percent)
        total_commission_percent == FracAdd(entry_commission_percent,
                                            exit_commission_percent)
    IN  FracSub(gross_pnl_percent, total_commission_percent)

\* A faulty exit: the monitor records the exit and goes on monitoring
sm_execute_sell_stays_active(sm, reason, price) ==
    [sm EXCEPT !.trade_result = net_pnl_percent(sm.entry_price, price),
               !.exit_price = price,
               !.exit_reason = reason]

\* SellMonitor5Min._execute_sell, the monitor's own fields
sm_execute_sell(sm, reason, price) ==
    [sm EXCEPT !.trade_result = net_pnl_percent(sm.entry_price, price),
               !.exit_price = price,
               !.exit_reason = reason,
               !.is_monitoring = FALSE]

\* A faulty stagnation trigger: recovery mode is entered, the target stays
sm_targets_stagnation_keeps_tp(sm, candle, pnl_spike, pnl_quick) ==
    IF sm.recovery_mode_enabled /\ sm.recovery_mode /\ ~pnl_spike
       /\ candle.high >= sm.tp_price
    THEN sm_execute_sell(sm, "RECOVERY_TP", sm.tp_price)
    ELSE LET s == IF sm.recovery_mode_enabled /\ sm.recovery_mode /\ pnl_spike
                  THEN [sm EXCEPT
                          !.recovery_mode = FALSE,
                          !.tp_price = price_plus(sm.entry_price,
                                                  Frac(tp_percent_orig, 1))]
                  ELSE sm
         IN  IF ~s.recovery_mode /\ candle.high >= s.tp_price
             THEN sm_execute_sell(s, "TAKE_PROFIT", s.tp_price)
             ELSE IF s.entry_candle_count = stagnation_candles
             THEN IF quick_exit_enabled /\ pnl_quick
                  THEN sm_execute_sell(s, "QUICK_EXIT", candle.close)
                  ELSE IF s.recovery_mode_enabled
                  THEN [s EXCEPT !.recovery_mode = TRUE]
                  ELSE s
             ELSE s

\* process_candle from the recovery-mode handling on (steps 4 to 6)
sm_targets(sm, candle, pnl_spike, pnl_quick) ==
    IF sm.recovery_mode_enabled /\ sm.recovery_mode /\ ~pnl_spike
       /\ candle.high >= sm.tp_price
    THEN sm_execute_sell(sm, "RECOVERY_TP", sm.tp_price)
    ELSE LET s == IF sm.recovery_mode_enabled /\ sm.recovery_mode /\ pnl_spike
                  THEN [sm EXCEPT
                          !.recovery_mode = FALSE,
                          !.tp_price = price_plus(sm.entry_price,
                                                  Frac(tp_percent_orig, 1))]
                  ELSE sm
         IN  IF ~s.recovery_mode /\ candle.high >= s.tp_price
             THEN sm_execute_sell(s, "TAKE_PROFIT", s.tp_price)
             ELSE IF s.entry_candle_count = stagnation_candles
             THEN IF quick_exit_enabled /\ pnl_quick
                  THEN sm_execute_sell(s, "QUICK_EXIT", candle.close)
                  ELSE IF s.recovery_mode_enabled
                  THEN [s EXCEPT
                          !.recovery_mode = TRUE,
                          !.tp_price = price_plus(s.entry_price, recovery_tp)]
                  ELSE s
             ELSE s

\* A faulty order of the tests: take profit before stop loss
sm_process_candle_tp_first(sm, candle) ==
    LET s == [sm EXCEPT !.entry_candle_count = @ + 1]
    IN  IF ~s.recovery_mode /\ candle.high >= s.tp_price
        THEN sm_execute_sell(s, "TAKE_PROFIT", s.tp_price)
        ELSE IF candle.low <= s.sl_price
        THEN sm_execute_sell(s, "STOP_LOSS", s.sl_price)
        ELSE s

\* A faulty time limit: it fires one candle late
sm_process_candle_late_time_limit(sm, candle) ==
    LET s == [sm EXCEPT !.entry_candle_count = @ + 1]
        pnl(percent) == pnl_at_least(sm.entry_price, candle.close, percent)
    IN  IF /\ s.auto_exit_large_bearish
           /\ candle.close < candle.open
           /\ pnl(exit_min_profit)
           /\ candle.is_large
        THEN sm_execute_sell(s, "DANGER_BEARISH", candle.close)
        ELSE IF candle.low <= s.sl_price
        THEN sm_execute_sell(s, "STOP_LOSS", s.sl_price)
        ELSE IF s.entry_candle_count > max_candles
        THEN sm_execute_sell(s, "TIME_LIMIT", candle.close)
        ELSE IF reversal_enabled /\ candle.severity = 3 /\ auto_exit_on_danger
        THEN sm_execute_sell(s, "REVERSAL_DETECTED", candle.close)
        ELSE IF /\ reversal_enabled
                /\ candle.severity >= 2
                /\ s.reduce_tp_on_warning
                /\ ~s.recovery_mode
        THEN sm_targets([s EXCEPT
                           !.recovery_mode = TRUE,
                           !.tp_price = price_plus(s.entry_price, recovery_tp)],
                        candle, pnl(spike_trigger), pnl(quick_exit_threshold))
        ELSE sm_targets(s, candle, pnl(spike_trigger),
                        pnl(quick_exit_threshold))

\* SellMonitor5Min.process_candle while monitoring
sm_process_candle(sm, candle) ==
    LET s == [sm EXCEPT !.entry_candle_count = @ + 1]
        pnl(percent) == pnl_at_least(sm.entry_price, candle.close, percent)
    IN  IF /\ s.auto_exit_large_bearish
           /\ candle.close < candle.open
           /\ pnl(exit_min_profit)
           /\ candle.is_large
        THEN sm_execute_sell(s, "DANGER_BEARISH", candle.close)
        ELSE IF candle.low <= s.sl_price
        THEN sm_execute_sell(s, "STOP_LOSS", s.sl_price)
        ELSE IF s.entry_candle_count >= max_candles
        THEN sm_execute_sell(s, "TIME_LIMIT", candle.close)
        ELSE IF reversal_enabled /\ candle.severity = 3 /\ auto_exit_on_danger
        THEN sm_execute_sell(s, "REVERSAL_DETECTED", candle.close)
        ELSE IF /\ reversal_enabled
                /\ candle.severity >= 2
                /\ s.reduce_tp_on_warning
                /\ ~s.recovery_mode
        THEN sm_targets([s EXCEPT
                           !.recovery_mode = TRUE,
                           !.tp_price = price_plus(s.entry_price, recovery_tp)],
                        candle, pnl(spike_trigger), pnl(quick_exit_threshold))
        ELSE sm_targets(s, candle, pnl(spike_trigger),
                        pnl(quick_exit_threshold))

SellCandles ==
    { [open |-> o, close |-> c, high |-> h, low |-> l, is_large |-> big,
       severity |-> sev] :
          c \in {9990, 10025, 10150}, o \in {9985, 10030, 10155},
          h \in {10030, 10155, 10600}, l \in {9700, 9985},
          big \in BOOLEAN, sev \in {0, 2, 3} }

WellFormedSell(candle) ==
    /\ candle.open \in {candle.close - 5, candle.close + 5}
    /\ candle.high >= candle.open
    /\ candle.high >= candle.close
    /\ candle.is_large => candle.close < candle.open

\* check_pattern passing a candle to the active sell monitor; calc records
\* the extremes of the candle
SellCandleOn(a, candle) ==
    /\ Dispatch(a) = "SELL"
    /\ LET sm == sm_process_candle(sell_monitor[a], candle)
       IN  /\ sell_monitor' = [sell_monitor EXCEPT ![a] = sm]
           /\ positions' = IF sm.is_monitoring THEN positions
                           ELSE remove_position(positions, a, "5min")
           /\ cooldowns' = IF ~sm.is_monitoring /\ sm.cooldown_enabled
                           THEN start_cooldown(CooldownStep(a), a, "5min")
                           ELSE CooldownStep(a)
    /\ calc' = [fn |-> "sell_process_candle", high |-> candle.high,
                low |-> candle.low]
    /\ UNCHANGED <<buy_monitor, executed_orders, db>>
    /\ QueueUntouched
    /\ AllocatorUntouched

\* a fill: the buy monitor adds the position, marks it SELL_MONITORING and
\* starts its sell monitor at the fill price
Fill(a) ==
    /\ Dispatch(a) = "DETECT"
    /\ check_capital_commitment(positions) = "APPROVED"
    /\ positions' = update_status(add_position(positions, a, "5min", 0, "None"),
                                  a, "5min", "SELL_MONITORING")
    /\ sell_monitor' = [sell_monitor EXCEPT
                          ![a] = sm_start_monitoring(@, candle_open)]
    /\ cooldowns' = CooldownStep(a)
    /\ UNCHANGED <<buy_monitor, executed_orders, db, calc>>
    /\ QueueUntouched
    /\ AllocatorUntouched

InitSell ==
    /\ allocations = [tf \in Timeframes |-> EmptyDict]
    /\ alloc_call = [symbol |-> "None", timeframe |-> "None", ret |-> 0]
    /\ pending_orders = <<>>
    /\ executed_orders = <<>>
    /\ queue_ret = "NONE"
    /\ queue_log = <<>>
    /\ queue_log_ok = TRUE
    /\ positions = [tf \in Timeframes |-> EmptyDict]
    /\ cooldowns = [tf \in Timeframes |-> EmptyDict]
    /\ buy_monitor = [a \in Assets |-> BuyMonitorInit]
    /\ \E large_bearish \in BOOLEAN, reduce_tp \in BOOLEAN,
          cooldown \in BOOLEAN :
          sell_monitor = [a \in Assets |->
                             SellMonitorIdle(large_bearish, reduce_tp,
                                             cooldown)]
    /\ db = [a \in Assets |-> <<>>]
    /\ calc = NoCalc

\* the asset whose sell monitor is followed
TradedAsset == AssetNames[1]

NextSell ==
    \/ Fill(TradedAsset)
    \/ \E candle \in SellCandles :
          WellFormedSell(candle) /\ SellCandleOn(TradedAsset, candle)

SpecSell == InitSell /\ [][NextSell]_vars

(* The sell monitor with recovery mode switched off
   (SELL_MONITOR_5MIN.recovery_mode_enabled = False) *)

InitNoRecovery ==
    /\ allocations = [tf \in Timeframes |-> EmptyDict]
    /\ alloc_call = [symbol |-> "None", timeframe |-> "None", ret |-> 0]
    /\ pending_orders = <<>>
    /\ executed_orders = <<>>
    /\ queue_ret = "NONE"
    /\ queue_log = <<>>
    /\ queue_log_ok = TRUE
    /\ positions = [tf \in Timeframes |-> EmptyDict]
    /\ cooldowns = [tf \in Timeframes |-> EmptyDict]
    /\ buy_monitor = [a \in Assets |-> BuyMonitorInit]
    /\ \E large_bearish \in BOOLEAN, reduce_tp \in BOOLEAN,
          cooldown \in BOOLEAN :
          sell_monitor = [a \in Assets |->
                             [SellMonitorIdle(large_bearish, reduce_tp,
                                              cooldown)
                                EXCEPT !.recovery_mode_enabled = FALSE]]
    /\ db = [a \in Assets |-> <<>>]
    /\ calc = NoCalc

SpecNoRecovery == InitNoRecovery /\ [][NextSell]_vars

----------------------------------------------------------------------------
(* pattern_detector_5min.py: the 2BULL check on the two most recent stored
   candles.  Prices are in ticks of 0.1; a stored row carries the text of
   its timestamp column as the pair of the format it was written in and the
   wall-clock label (in candles); calc holds the detector's inputs and,
   once the check has run, its outcome. *)

min_gain_percent == 1
min_volume == 15000
min_trades == 100
min_candle_volume == 100

\* the timestamp column written by Database.add_candle
stored_timestamp(open_time) ==
    [format |-> "%Y%m%d_%H%M", label |-> timestamp_to_vienna_str(open_time)]

\* datetime.strptime: the parsed time, or ValueError (ok = FALSE) when the
\* text is not in the format asked for
strptime(text, format) ==
    IF text.format = format
    THEN [ok |-> TRUE, value |-> text.label]
    ELSE [ok |-> FALSE, value |-> 0]

\* PatternDetector5Min._are_consecutive: any exception gives False; 300
\* seconds are one candle
are_consecutive(c1, c2) ==
    LET ts_format == "%Y-%m-%d %H:%M:%S"
        t1 == strptime(c1.timestamp, ts_format)
        t2 == strptime(c2.timestamp, ts_format)
    IN  IF t1.ok /\ t2.ok THEN t2.value - t1.value = 1 ELSE FALSE

\* the outcome of a check that returns None before the duplicate check
NoSignal(last_alert_timestamp) ==
    [ret |-> "None", emitted |-> FALSE, beauty_score |-> 0,
     last_alert_timestamp |-> last_alert_timestamp]

\* A faulty duplicate check: only an alert that starts monitoring is
\* remembered
check_2bull_pattern_marks_started_only(candles, filter_ema9_above_ema20, last_alert_timestamp, pos) ==
    IF Len(candles) < 2 THEN NoSignal(last_alert_timestamp)
    ELSE
    LET c1 == candles[1]
        c2 == candles[2]
        total_volume == c1.turnover + c2.turnover
        total_trades == c1.trades + c2.trades
    IN  IF ~are_consecutive(c1, c2) THEN NoSignal(last_alert_timestamp)
        ELSE IF ~(c1.close >= c1.open /\ c2.close >= c2.open)
             THEN NoSignal(last_alert_timestamp)
        ELSE IF ~(c2.close > c1.close) THEN NoSignal(last_alert_timestamp)
        ELSE IF (c2.close - c1.open) * 100 < min_gain_percent * c1.open
             THEN NoSignal(last_alert_timestamp)
        ELSE IF c1.turnover < min_candle_volume
             THEN NoSignal(last_alert_timestamp)
        ELSE IF total_volume < min_volume THEN NoSignal(last_alert_timestamp)
        ELSE IF total_trades < min_trades THEN NoSignal(last_alert_timestamp)
        ELSE IF filter_ema9_above_ema20 /\ c2.ema9_below_ema20
             THEN NoSignal(last_alert_timestamp)
        ELSE IF last_alert_timestamp = <<c2.timestamp>>
             THEN NoSignal(last_alert_timestamp)
        ELSE [ret |-> IF count_positions_by_pattern(pos, "5min", "2BULL_5min")
                             < max_positions_5min
                      THEN "TypeError" ELSE "2BULL_BLOCKED",
              emitted |-> TRUE,
              beauty_score |-> calculate(<<c1, c2>>),
              last_alert_timestamp |->
                  IF count_positions_by_pattern(pos, "5min", "2BULL_5min")
                         < max_positions_5min
                  THEN <<c2.timestamp>> ELSE last_alert_timestamp]

\* PatternDetector5Min._check_2bull_pattern with the optional filters other
\* than filter_ema9_above_ema20 switched off, as configured.  The call of
\* buy_monitor.start_monitoring that follows the alert passes keyword
\* arguments the method does not declare and raises TypeError.
check_2bull_pattern(candles, filter_ema9_above_ema20, last_alert_timestamp, pos) ==
    IF Len(candles) < 2 THEN NoSignal(last_alert_timestamp)
    ELSE
    LET c1 == candles[1]
        c2 == candles[2]
        total_volume == c1.turnover + c2.turnover
        total_trades == c1.trades + c2.trades
    IN  IF ~are_consecutive(c1, c2) THEN NoSignal(last_alert_timestamp)
        ELSE IF ~(c1.close >= c1.open /\ c2.close >= c2.open)
             THEN NoSignal(last_alert_timestamp)
        ELSE IF ~(c2.close > c1.close) THEN NoSignal(last_alert_timestamp)
        ELSE IF (c2.close - c1.open) * 100 < min_gain_percent * c1.open
             THEN NoSignal(last_alert_timestamp)
        ELSE IF c1.turnover < min_candle_volume
             THEN NoSignal(last_alert_timestamp)
        ELSE IF total_volume < min_volume THEN NoSignal(last_alert_timestamp)
        ELSE IF total_trades < min_trades THEN NoSignal(last_alert_timestamp)
        ELSE IF filter_ema9_above_ema20 /\ c2.ema9_below_ema20
             THEN NoSignal(last_alert_timestamp)
        ELSE IF last_alert_timestamp = <<c2.timestamp>>
             THEN NoSignal(last_alert_timestamp)
        ELSE [ret |-> IF count_positions_by_pattern(pos, "5min", "2BULL_5min")
                             < max_positions_5min
                      THEN "TypeError" ELSE "2BULL_BLOCKED",
              emitted |-> TRUE,
              beauty_score |-> calculate(<<c1, c2>>),
              last_alert_timestamp |-> <<c2.timestamp>>]

\* a stored row: Database.add_candle writes the timestamp of its open time
StoredCandle(open_time, open, close, turnover, trades, below) ==
    [open_time |-> open_time, timestamp |-> stored_timestamp(open_time),
     open |-> open, close |-> close, high |-> close, low |-> open,
     turnover |-> turnover, trades |-> trades, ema9_below_ema20 |-> below]

\* Database.get_recent_candles(2): the two rows with the greatest timestamps,
\* oldest first
RecentPairs ==
    {<<StoredCandle(1, o1, c1, t1, n1, FALSE),
       StoredCandle(ot2, o2, c2, t2, n2, below)>> :
     o1 \in {1000}, c1 \in {1010, 1020}, t1 \in {8000}, n1 \in {30, 60},
     ot2 \in {2, 3}, o2 \in {1010}, c2 \in {1005, 1025},
     t2 \in {6000, 9000}, n2 \in {70}, below \in BOOLEAN}

InitDetector ==
    /\ InitBot
    /\ \E candles \in RecentPairs, filter \in BOOLEAN, alerted \in BOOLEAN :
          calc = [fn |-> "check_2bull_pattern", candles |-> candles,
                  filter_ema9_above_ema20 |-> filter,
                  alerted |-> alerted,
                  last_alert_timestamp |->
                      IF alerted THEN <<candles[2].timestamp>> ELSE <<>>,
                  done |-> FALSE, ret |-> "None", emitted |-> FALSE,
                  beauty_score |-> 0]

Check2Bull ==
    /\ calc.fn = "check_2bull_pattern"
    /\ ~calc.done
    /\ LET r == check_2bull_pattern(calc.candles, calc.filter_ema9_above_ema20,
                                    calc.last_alert_timestamp, positions)
       IN  calc' = [calc EXCEPT !.done = TRUE, !.ret = r.ret,
                                !.emitted = r.emitted,
                                !.beauty_score = r.beauty_score,
                                !.last_alert_timestamp = r.last_alert_timestamp]
    /\ UNCHANGED <<allocations, alloc_call, pending_orders, executed_orders,
                   queue_ret, queue_log, queue_log_ok, positions, cooldowns,
                   buy_monitor, sell_monitor, db>>

NextDetector == Check2Bull

SpecDetector == InitDetector /\ [][NextDetector]_vars

----------------------------------------------------------------------------
(* The 5min workers with the cooldown switched on (TRADING.cooldown_enabled)
   and TRADING.cooldown_5min_candles read once at startup; calc holds that
   setting and, per asset, the number of candles that closed since the exit
   that last started its cooldown (counted up to MaxCooldown + 1, which also
   stands for no exit so far). *)

MaxCooldown == 2

\* closed candles of one asset's stream
MaxCandles == 5

\* open times of the stream, none after the clock change
StreamOpenTimes == (CandlesPerHour - MaxCandles + 1)..CandlesPerHour

\* CooldownTracker.start_cooldown with cooldown_5min_candles = candles
start_cooldown_of(cd, symbol, timeframe, candles) ==
    [cd EXCEPT ![timeframe] = DictSet(@, symbol, candles)]

\* SellMonitor5Min._execute_sell with the cooldown enabled
execute_sell_cooldown(a, candles) ==
    /\ positions' = remove_position(positions, a, "5min")
    /\ cooldowns' = start_cooldown_of(CooldownStep(a), a, "5min", candles)
    /\ sell_monitor' = [sell_monitor EXCEPT ![a].is_monitoring = FALSE]

\* SellMonitor5Min.process_candle: some exit condition fires, or none does
SellCandleCooldown(a, candles) ==
    /\ Dispatch(a) = "SELL"
    /\ \E exit \in BOOLEAN :
          IF exit
          THEN execute_sell_cooldown(a, candles)
          ELSE /\ cooldowns' = CooldownStep(a)
               /\ UNCHANGED <<positions, sell_monitor>>
    /\ UNCHANGED <<buy_monitor, executed_orders>>
    /\ QueueUntouched
    /\ AllocatorUntouched

\* the websocket delivers the closed klines of a stream in order, and may
\* deliver the latest one again
Delivered(candles, open_time) ==
    IF candles = <<>>
    THEN open_time = CandlesPerHour - MaxCandles + 1
    ELSE open_time \in {candles[Len(candles)], candles[Len(candles)] + 1}

\* StreamProcessor.process_kline for a closed 5m kline: add_candle, then
\* check_pattern on the most recent stored candle
process_kline_cooldown(a, open_time) ==
    /\ Delivered(db[a], open_time)
    /\ db' = [db EXCEPT ![a] = add_candle(@, open_time)]
    /\ \/ SellCandleCooldown(a, calc.cooldown_5min_candles)
       \/ BuyCandleEma(a)
       \/ check_and_start_ema_pattern(a)
       \/ NoPattern(a)
    /\ calc' = [calc EXCEPT !.elapsed[a] =
           IF Dispatch(a) = "SELL" /\ is_in_cooldown(cooldowns', a, "5min")
           THEN 0
           ELSE IF candle_exists(db[a], open_time) THEN @
           ELSE Min(@ + 1, MaxCooldown + 1)]

InitCooldown ==
    /\ InitBot
    /\ \E candles \in 1..MaxCooldown :
          calc = [fn |-> "check_pattern", cooldown_5min_candles |-> candles,
                  elapsed |-> [a \in Assets |-> MaxCooldown + 1]]

\* the assets whose streams are followed
StreamAssets == {AssetNames[1], AssetNames[2]}

NextCooldown ==
    \E a \in StreamAssets, open_time \in StreamOpenTimes :
        process_kline_cooldown(a, open_time)

SpecCooldown == InitCooldown /\ [][NextCooldown]_vars

----------------------------------------------------------------------------
(* The 5min workers as wired, with 2BULL detection switched on
   (PATTERN_2BULL.enabled) next to the EMA-momentum detection *)

\* PatternDetector5Min._check_2bull_pattern on a candle whose pair passes
\* every check, with a 2BULL slot free: the alert is written and
\* buy_monitor.start_monitoring is called with avg_volume, beauty_score,
\* pattern_candles, pattern_gain, pattern_volume, pattern_trades and
\* pattern_type.  BuyMonitor5Min.start_monitoring declares c1, c2,
\* beauty_score, avg_volume and pattern_type, so the call raises TypeError
\* before the method body runs; the exception leaves check_pattern and is
\* caught in WebSocketClient._on_message.
check_2bull_pattern_accepts(a) ==
    /\ Dispatch(a) = "DETECT"
    /\ count_positions_by_pattern(positions, "5min", "2BULL_5min")
           < max_positions_5min
    /\ calc' = [fn |-> "check_2bull_pattern", symbol |-> a,
                ret |-> "TypeError"]
    /\ cooldowns' = CooldownStep(a)
    /\ UNCHANGED <<buy_monitor, positions, sell_monitor, executed_orders, db>>
    /\ QueueUntouched
    /\ AllocatorUntouched

NextWired ==
    \E a \in Assets :
        \/ check_2bull_pattern_accepts(a)
        \/ check_and_start_ema_pattern(a) /\ UNCHANGED <<db, calc>>
        \/ BuyCandleEma(a) /\ UNCHANGED <<db, calc>>
        \/ SellCandle(a) /\ UNCHANGED <<db, calc>>

SpecWired == Init /\ [][NextWired]_vars

----------------------------------------------------------------------------
(* The 2BULL workers with a log sink that can fail: LogWriter.write lets the
   OSError of its file write through, the exception leaves process_candle
   and check_pattern, and WebSocketClient._on_message catches it.  The sink
   is taken to fail at the first write of a fill or of a sell. *)

\* BuyMonitor5Min._check_limit_fill when the write of the FILLED message
\* raises: the limit is popped and bought is set, the rest is not run
bm_check_limit_fill_sink_raises(w, a, candle) ==
    IF w.bm.limit_orders # <<>> /\ candle.high >= w.bm.limit_orders[1]
    THEN [w EXCEPT !.bm.limit_orders = Tail(@),
                   !.bm.bought = TRUE,
                   !.ret = "Exception"]
    ELSE [w EXCEPT !.ret = "None"]

\* check_pattern passing the buy monitor a candle that fills the resting
\* limit, with the sink failing
BuyCandle2BullSinkRaises(a, candle) ==
    /\ Dispatch(a) = "BUY"
    /\ ~(buy_monitor[a].bought /\ sell_monitor[a].is_monitoring)
    /\ buy_monitor[a].pattern_type # "EMA5min"
    /\ LET w == bm_check_limit_fill_sink_raises(World(a), a, candle)
       IN /\ w.ret = "Exception"
          /\ buy_monitor' = [buy_monitor EXCEPT ![a] = w.bm]
          /\ calc' = [fn |-> "process_candle", symbol |-> a,
                      is_bullish |-> candle.is_bullish, ret |-> w.ret]
          /\ sell_monitor' = [sell_monitor EXCEPT ![a].is_monitoring = w.sm]
          /\ positions' = w.pos
          /\ pending_orders' = w.pending
    /\ cooldowns' = CooldownStep(a)
    /\ UNCHANGED <<queue_ret, queue_log, queue_log_ok, executed_orders, db>>
    /\ AllocatorUntouched

\* check_pattern passing the sell monitor a candle on which an exit
\* condition fires, with the sink failing: _execute_sell raises at the write
\* of the sell message, before remove_position, start_cooldown and
\* _stop_monitoring
SellCandleSinkRaises(a) ==
    /\ Dispatch(a) = "SELL"
    /\ calc' = [fn |-> "execute_sell", symbol |-> a, ret |-> "Exception"]
    /\ cooldowns' = CooldownStep(a)
    /\ UNCHANGED <<positions, sell_monitor, buy_monitor, executed_orders, db>>
    /\ QueueUntouched
    /\ AllocatorUntouched

NextSink ==
    \E a \in StreamAssets :
        \/ start_monitoring(a) /\ UNCHANGED <<db, calc>>
        \/ BuyCandle2Bull(a) /\ UNCHANGED db
        \/ \E candle \in Candles :
              WellFormed(candle) /\ BuyCandle2BullSinkRaises(a, candle)
        \/ SellCandle(a) /\ UNCHANGED <<db, calc>>
        \/ SellCandleSinkRaises(a)

SpecSink == Init /\ [][NextSink]_vars

----------------------------------------------------------------------------
(* pattern_detector_5min.py: the duplicate check of _check_2bull_pattern
   under repeated checks of one window (process_kline calls check_pattern
   again when a kline is delivered again).  The window's timestamp text is
   an input: as Database.add_candle writes it, for which _are_consecutive
   never holds, or in the format _are_consecutive parses.  held is the set
   of assets that hold a 2BULL position; calc holds the window, the
   detector's last_alert_timestamp and what the checks so far returned. *)

MaxCalls == 3

TimestampFormats == {"%Y%m%d_%H%M", "%Y-%m-%d %H:%M:%S"}

DetectorWindows ==
    { <<[w[1] EXCEPT !.timestamp.format = f],
        [w[2] EXCEPT !.timestamp.format = f]>> :
          w \in RecentPairs, f \in TimestampFormats }

InitDedup ==
    /\ allocations = [tf \in Timeframes |-> EmptyDict]
    /\ alloc_call = [symbol |-> "None", timeframe |-> "None", ret |-> 0]
    /\ pending_orders = <<>>
    /\ executed_orders = <<>>
    /\ queue_ret = "NONE"
    /\ queue_log = <<>>
    /\ queue_log_ok = TRUE
    /\ cooldowns = [tf \in Timeframes |-> EmptyDict]
    /\ buy_monitor = [a \in Assets |-> BuyMonitorInit]
    /\ db = [a \in Assets |-> <<>>]
    /\ \E held \in {{}, Assets \ {TradedAsset}} :
          /\ positions =
                 [tf \in Timeframes |->
                     IF tf = "5min"
                     THEN [a \in held |->
                              [pattern_type |-> "2BULL_5min",
                               status |-> "SELL_MONITORING",
                               capital_allocated |-> 0]]
                     ELSE EmptyDict]
          /\ sell_monitor = [a \in Assets |-> [is_monitoring |-> a \in held]]
    /\ \E candles \in DetectorWindows, filter \in BOOLEAN, alerted \in BOOLEAN :
          calc = [fn |-> "check_2bull_pattern", candles |-> candles,
                  filter_ema9_above_ema20 |-> filter,
                  alerted |-> alerted,
                  last_alert_timestamp |->
                      IF alerted THEN <<candles[2].timestamp>> ELSE <<>>,
                  rets |-> <<>>, signals |-> 0]

\* check_pattern reaching _check_2bull_pattern for TradedAsset with the
\* window of calc
CheckWindow ==
    /\ calc.fn = "check_2bull_pattern"
    /\ Len(calc.rets) < MaxCalls
    /\ Dispatch(TradedAsset) = "DETECT"
    /\ LET r == check_2bull_pattern(calc.candles, calc.filter_ema9_above_ema20,
                                    calc.last_alert_timestamp, positions)
       IN  calc' = [calc EXCEPT
                      !.rets = Append(@, r.ret),
                      !.signals = IF r.emitted THEN @ + 1 ELSE @,
                      !.last_alert_timestamp = r.last_alert_timestamp]
    /\ UNCHANGED <<allocations, alloc_call, pending_orders, executed_orders,
                   queue_ret, queue_log, queue_log_ok, positions, cooldowns,
                   buy_monitor, sell_monitor, db>>

NextDedup == CheckWindow

SpecDedup == InitDedup /\ [][NextDedup]_vars

----------------------------------------------------------------------------
(* pattern_detector.py and pattern_detector_5min.py:
   check_ema_momentum_pattern as a function of the current candle (turnover
   and ema9, in ticks of 0.01, None as -1), the ema9 column of
   db.get_recent_candles(lookback_window + 1) (oldest first, the current
   candle last), the detector's ema_last_detection_candle (None as -1) and
   db.get_candle_count().  EMA_MOMENTUM.enabled and recency_filter_enabled
   are True as configured. *)

threshold_percent == 1
lookback_window == 10
min_lookback_candles == 6
min_candle_volume_1min == 50
min_candle_volume_5min == 100
recency_filter_candles == 60

EmaNone == 0 - 1

\* the for-loop over range(lookback_min, lookback_max + 1), from lookback
\* on: the first lookback whose gain reaches the threshold, 0 for none
RECURSIVE first_lookback(_, _, _)
first_lookback(current_ema9, historical, lookback) ==
    IF lookback > lookback_window THEN 0
    ELSE IF lookback >= Len(historical)
    THEN first_lookback(current_ema9, historical, lookback + 1)
    ELSE LET old_ema9 == historical[Len(historical) - lookback]
         IN  IF old_ema9 = EmaNone \/ old_ema9 <= 0
             THEN first_lookback(current_ema9, historical, lookback + 1)
             ELSE IF (current_ema9 - old_ema9) * 100 >= threshold_percent * old_ema9
             THEN lookback
             ELSE first_lookback(current_ema9, historical, lookback + 1)

\* the part both detectors share, from the read of ema9 on
ema_momentum_scan(current_ema9, historical, last_detection, total_candles) ==
    IF current_ema9 = EmaNone
    THEN [detected |-> FALSE, last_detection |-> last_detection]
    ELSE IF Len(historical) < min_lookback_candles + 1
    THEN [detected |-> FALSE, last_detection |-> last_detection]
    ELSE IF first_lookback(current_ema9, historical, min_lookback_candles) = 0
    THEN [detected |-> FALSE, last_detection |-> last_detection]
    ELSE IF /\ last_detection # EmaNone
            /\ total_candles - last_detection < recency_filter_candles
    THEN [detected |-> FALSE, last_detection |-> total_candles]
    ELSE [detected |-> TRUE, last_detection |-> total_candles]

\* PatternDetector.check_ema_momentum_pattern (1min)
check_ema_momentum_pattern(turnover, current_ema9, historical, last_detection, total_candles) ==
    ema_momentum_scan(current_ema9, historical, last_detection, total_candles)

\* PatternDetector5Min.check_ema_momentum_pattern
check_ema_momentum_pattern_5min(turnover, current_ema9, historical, last_detection, total_candles) ==
    IF turnover < min_candle_volume_5min
    THEN [detected |-> FALSE, last_detection |-> last_detection]
    ELSE ema_momentum_scan(current_ema9, historical, last_detection,
                           total_candles)

\* ema9 columns: n rows at 10.09 with the rows of S at 10.00
EmaHistories ==
    { [i \in 1..n |-> IF i \in S THEN 1000 ELSE 1009] :
          n \in {5, 7, 11}, S \in {{}, 1..11, {1}, {3}} }

InitEma ==
    /\ InitBot
    /\ \E timeframe \in Timeframes, turnover \in {40, 60, 120},
          current_ema9 \in {EmaNone, 1010, 1020},
          historical \in EmaHistories, last_detection \in {EmaNone, 40, 41} :
          calc = [fn |-> "check_ema_momentum_pattern",
                  timeframe |-> timeframe, turnover |-> turnover,
                  current_ema9 |-> current_ema9, historical |-> historical,
                  ema_last_detection_candle |-> last_detection,
                  total_candles |-> 100,
                  done |-> FALSE, detected |-> FALSE]

CheckEmaMomentum ==
    /\ calc.fn = "check_ema_momentum_pattern"
    /\ ~calc.done
    /\ LET r == IF calc.timeframe = "1min"
                THEN check_ema_momentum_pattern(
                         calc.turnover, calc.current_ema9, calc.historical,
                         calc.ema_last_detection_candle, calc.total_candles)
                ELSE check_ema_momentum_pattern_5min(
                         calc.turnover, calc.current_ema9, calc.historical,
                         calc.ema_last_detection_candle, calc.total_candles)
       IN  calc' = [calc EXCEPT !.done = TRUE, !.detected = r.detected,
                                !.ema_last_detection_candle = r.last_detection]
    /\ UNCHANGED <<allocations, alloc_call, pending_orders, executed_orders,
                   queue_ret, queue_log, queue_log_ok, positions, cooldowns,
                   buy_monitor, sell_monitor, db>>

NextEma == CheckEmaMomentum

SpecEma == InitEma /\ [][NextEma]_vars

----------------------------------------------------------------------------
(* gap_recovery.py: one attempt of recover_gap on a candle table, between
   the live candles that Database.add_candle appends.  Times count minutes
   (interval '1m'); a candle opened at t closes at t + 1. *)

\* GapRecovery.__init__: the largest gap that is recovered
max_gap_minutes == MaxGap

close_time(row) == row.open_time + 1

\* A faulty detect_gap that has no upper limit on the gap
detect_gap_unbounded(rows, current_time) ==
    IF rows = {} THEN [has_gap |-> FALSE, gap_minutes |-> 0,
                       last_close_time |-> 0]
    ELSE LET last_close_time == close_time(latest_row(rows))
             time_diff == current_time - last_close_time
             gap_minutes == IF time_diff - 1 > 0 THEN time_diff - 1 ELSE 0
         IN  [has_gap |-> 0 < gap_minutes,
              gap_minutes |-> gap_minutes,
              last_close_time |-> last_close_time]

\* GapRecovery.detect_gap
detect_gap(rows, current_time) ==
    IF rows = {} THEN [has_gap |-> FALSE, gap_minutes |-> 0,
                       last_close_time |-> 0]
    ELSE LET last_close_time == close_time(latest_row(rows))
             time_diff == current_time - last_close_time
             gap_minutes == IF time_diff - 1 > 0 THEN time_diff - 1 ELSE 0
         IN  [has_gap |-> 0 < gap_minutes /\ gap_minutes <= max_gap_minutes,
              gap_minutes |-> gap_minutes,
              last_close_time |-> last_close_time]

\* the loop of recover_gap over the candles from position i on
RECURSIVE recover_loop(_, _, _, _)
recover_loop(rows, ema_chain, missing_candles, i) ==
    IF i > Len(missing_candles) THEN rows
    ELSE LET candle_data == missing_candles[i]
             indicators == calculate_indicators_sequential(candle_data.close,
                                                           ema_chain)
         IN  recover_loop(add_candle_with_indicators(rows, candle_data,
                                                     indicators),
                          ema_chain_of(indicators), missing_candles, i + 1)

\* GapRecovery.recover_gap; fetched is what fetch_missing_candles returns,
\* the empty list when the request fails
recover_gap(rows, current_time, fetched) ==
    LET d == detect_gap(rows, current_time)
    IN  IF ~d.has_gap
        THEN [rows |-> rows, ret |-> TRUE,
              outcome |-> IF d.gap_minutes > 0 THEN "TOO_LARGE"
                          ELSE "NO_GAP"]
        ELSE IF fetched = <<>>
        THEN [rows |-> rows, ret |-> FALSE, outcome |-> "FETCH_FAILED"]
        ELSE [rows |-> recover_loop(rows, ema_chain_of(latest_row(rows)),
                                    fetched, 1),
              ret |-> TRUE, outcome |-> "RECOVERED"]

\* the table holds at most MaxRows candles
MaxRows == MaxGap + 1

\* the clock runs up to the last minute before the wall clock is set back
FirstOpenTime == CandlesPerHour - MaxGap - 4

GapTimes == FirstOpenTime..CandlesPerHour

\* what the exchange answers: n candles from start_time on, all closed at
\* close; nothing when the request fails
Fetched(start_time, n, close) ==
    [i \in 1..n |-> [open_time |-> start_time + i - 1, close |-> close]]

InitGap ==
    /\ InitBot
    /\ calc \in {[fn |-> "recover_gap",
                  rows |-> add_candle_row({}, [open_time |-> FirstOpenTime,
                                               close |-> c0]),
                  before |-> {},
                  trace |-> <<>>] : c0 \in Closes}

GapUnchanged ==
    UNCHANGED <<allocations, alloc_call, pending_orders, executed_orders,
                queue_ret, queue_log, queue_log_ok, positions, cooldowns,
                buy_monitor, sell_monitor, db>>

\* one call of recover_gap at current_time
RecoverGap(current_time, fetched) ==
    /\ calc.fn = "recover_gap"
    /\ Len(calc.trace) < MaxCalls
    /\ current_time >= close_time(latest_row(calc.rows))
    /\ Cardinality(calc.rows) + Len(fetched) <= MaxRows
    /\ LET r == recover_gap(calc.rows, current_time, fetched)
       IN  calc' = [calc EXCEPT !.rows = r.rows,
                                !.before = calc.rows,
                                !.trace = Append(@, r.outcome)]
    /\ GapUnchanged

\* the next live candle: StreamProcessor.process_kline calls add_candle
LiveCandle(candle) ==
    /\ calc.fn = "recover_gap"
    /\ Len(calc.trace) < MaxCalls
    /\ candle.open_time >= close_time(latest_row(calc.rows))
    /\ Cardinality(calc.rows) < MaxRows
    /\ calc' = [calc EXCEPT !.rows = add_candle_row(@, candle),
                            !.trace = Append(@, "LIVE")]
    /\ GapUnchanged

GapFetches(rows) ==
    {Fetched(close_time(latest_row(rows)) + 1, n, close) :
         n \in 0..MaxGap, close \in Closes}

GapCandles == [open_time : GapTimes, close : Closes]

NextGap ==
    \/ \E current_time \in GapTimes, fetched \in GapFetches(calc.rows) :
           RecoverGap(current_time, fetched)
    \/ \E candle \in GapCandles : LiveCandle(candle)

SpecGap == InitGap /\ [][NextGap]_vars

----------------------------------------------------------------------------
(* Claims about the CapitalAllocator (SpecAllocator) *)

\* C1: after any sequence or interleaving of allocate and release calls, the
\* sum of the recorded allocations of a timeframe never exceeds its pool.
C1_SumWithinPool ==
    \A timeframe \in Timeframes :
        SumValues(allocations[timeframe]) <= Pool(timeframe)

\* C1 witness: a pool is allocated in full and a further asset asked for
\* capital and got none.
C1_Witness ==
    \E timeframe \in Timeframes :
        /\ SumValues(allocations[timeframe]) = Pool(timeframe)
        /\ alloc_call.timeframe = timeframe
        /\ alloc_call.symbol \in Assets \ DOMAIN allocations[timeframe]
        /\ alloc_call.ret = 0

\* C2: allocate for an asset that already holds an allocation in that
\* timeframe returns 0 and leaves every recorded allocation unchanged.
C2_NoDoubleBooking ==
    [][\A symbol \in Assets, timeframe \in Timeframes :
          (symbol \in DOMAIN allocations[timeframe] /\ allocate(symbol, timeframe))
              => (alloc_call'.ret = 0 /\ allocations' = allocations)]_vars

\* C2 witness: the last allocate call was for an asset that holds an
\* allocation in that timeframe since before the call, and it returned 0.
C2_Witness ==
    /\ alloc_call.symbol \in Assets
    /\ alloc_call.symbol \in DOMAIN allocations[alloc_call.timeframe]
    /\ alloc_call.ret = 0

----------------------------------------------------------------------------
(* Claims about the OrderQueue (SpecQueue) *)

\* C3: after any sequence or interleaving of request_order, mark_filled and
\* cancel_order calls from an empty queue, at most one limit order is pending.
C3_AtMostOnePending == Len(pending_orders) <= 1

\* C3 witness: a second asset's request was approved while another asset's
\* order was pending, and one order is pending.
C3_Witness ==
    /\ queue_log_ok
    /\ Len(queue_log) >= 2
    /\ queue_log[1].ret = "APPROVED"
    /\ queue_log[2].ret = "APPROVED"
    /\ queue_log[1].symbol # queue_log[2].symbol
    /\ Len(pending_orders) = 1

\* The scenario of C4: the calls so far are exactly request_order for A with
\* score 10, B with score 30, C with score 20, in that order.
C4_Scenario ==
    /\ queue_log_ok
    /\ Len(queue_log) = 3
    /\ queue_log[1].symbol = "A" /\ queue_log[1].beauty_score = 10
    /\ queue_log[2].symbol = "B" /\ queue_log[2].beauty_score = 30
    /\ queue_log[3].symbol = "C" /\ queue_log[3].beauty_score = 20

Rejected(ret) == ret \in {"REJECTED_COLLISION", "REJECTED_EXISTS"}

\* C4 as claimed: after the scenario only B is pending, and the requests of A
\* and of C were rejected.
C4_AsClaimed ==
    C4_Scenario =>
        /\ PendingSymbols(pending_orders) = {"B"}
        /\ Rejected(queue_log[1].ret)
        /\ Rejected(queue_log[3].ret)

\* C4 amended: after the scenario only B is pending (with score 30); the
\* request of C was rejected as a collision; the request of A was approved when
\* made, and A's order was removed by B's approved request.
C4_Amended ==
    C4_Scenario =>
        /\ Len(pending_orders) = 1
        /\ pending_orders[1].symbol = "B"
        /\ pending_orders[1].beauty_score = 30
        /\ queue_log[1].ret = "APPROVED"
        /\ queue_log[2].ret = "APPROVED"
        /\ queue_log[3].ret = "REJECTED_COLLISION"

\* C4 witness: the scenario has been played.
C4_Witness == C4_Scenario /\ PendingSymbols(pending_orders) = {"B"}

\* C5 as claimed: a request from an asset with no pending order whose score is
\* lower than or equal to the holder's score is rejected, and pending_orders
\* (the holder, its price and its score) stays as it was.
C5_AsClaimed ==
    [][\A symbol \in Assets, price \in Prices, beauty_score \in Scores :
          ( /\ pending_orders # <<>>
            /\ symbol \notin PendingSymbols(pending_orders)
            /\ \A i \in 1..Len(pending_orders) :
                   beauty_score <= pending_orders[i].beauty_score
            /\ request_order(symbol, price, beauty_score) )
              => (Rejected(queue_ret') /\ pending_orders' = pending_orders)]_vars

----------------------------------------------------------------------------
(* Claims about the whole bot (Spec) *)

\* C7 as claimed: at every reachable state an asset has a position on a
\* timeframe in the PositionManager if and only if the CapitalAllocator has
\* capital recorded for it on that timeframe.
C7_AsClaimed ==
    \A timeframe \in Timeframes, a \in Assets :
        has_position(positions, a, timeframe) <=> a \in DOMAIN allocations[timeframe]

\* C8 as claimed: the number of positions held on a timeframe never exceeds
\* that timeframe's slot ceiling max_positions.
C8_AsClaimed ==
    \A timeframe \in Timeframes :
        count_positions(positions, timeframe) <= MaxPositions(timeframe)

\* C9 as claimed: the number of open EMA-momentum positions on a timeframe
\* never exceeds the EMA-momentum slot ceiling of that timeframe.
C9_AsClaimed ==
    /\ count_positions_by_pattern(positions, "1min", "EMA1min") <= ema_max_positions_1min
    /\ count_positions_by_pattern(positions, "5min", "EMA5min") <= ema_max_positions_5min

\* C10 as claimed: with allow_same_asset_both_timeframes = false no asset
\* holds a position on the 1min and on the 5min timeframe at the same time.
C10_AsClaimed ==
    ~allow_same_asset_both_timeframes =>
        \A a \in Assets :
            ~(has_position(positions, a, "1min") /\ has_position(positions, a, "5min"))


----------------------------------------------------------------------------
(* Claims about limit orders resting on 5min (SpecTwoBull) *)

\* an asset's buy monitor has a limit order resting on 5min
RestingLimit(a) ==
    /\ buy_monitor[a].is_monitoring
    /\ buy_monitor[a].limit_orders # <<>>
    /\ has_position(positions, a, "5min")
    /\ positions["5min"][a].status = "LIMIT_PENDING"

\* C6 as claimed: at most one asset per timeframe holds a resting limit
\* order at any time: when one asset's buy monitor has a resting limit (its
\* position is LIMIT_PENDING), no other asset of the timeframe has one.
C6_AsClaimed ==
    \A a \in Assets, b \in Assets :
        (RestingLimit(a) /\ RestingLimit(b)) => a = b


----------------------------------------------------------------------------
(* Claims about the kline stream (SpecStream) *)

\* C11 as claimed: delivering a closed candle whose open time is already
\* stored for the asset is a no-op for the whole core: the stored candles,
\* the cooldown counters, the buy monitors, the sell monitors and the
\* positions (and every other variable) are unchanged.
C11_AsClaimed ==
    [][\A a \in Assets, open_time \in OpenTimes :
          (candle_exists(db[a], open_time) /\ process_kline(a, open_time))
              => UNCHANGED vars]_vars


----------------------------------------------------------------------------
(* Claims about the indicator pipeline (SpecIndicators) *)

\* C12 as claimed: starting from the same stored indicator state, every
\* candle replayed by the gap-recovery backfill gets the same ema9, ema20,
\* ema300, ema12, ema26, dif, dea and macd_hist as the normal append stores
\* for it when the same candles are appended one at a time.
C12_AsClaimed ==
    calc.fn = "recover_gap" =>
        \A i \in 1..Len(calc.yielded) :
            \A r \in calc.appended :
                r.open_time = calc.missing_candles[i].open_time
                    => Indicators(r) = calc.yielded[i]


----------------------------------------------------------------------------
(* Claims about the beauty score (SpecBeauty) *)

WickShareLow(c) ==
    c.high - c.low > 0 =>
        ((c.high - c.low) - Abs(c.close - c.open)) * 100
            <= 20 * (c.high - c.low)

\* C13 as claimed: BeautyScorer.calculate on a 2-candle window with
\* non-decreasing turnover, second open >= first close, wick share <= 20%
\* of the range on both candles and total gain in (1.0, 2.5] returns
\* exactly 100.
C13_AsClaimed ==
    (/\ calc.fn = "calculate"
     /\ calc.scored
     /\ Len(calc.candles) = 2
     /\ calc.candles[2].turnover >= calc.candles[1].turnover
     /\ calc.candles[2].open >= calc.candles[1].close
     /\ WickShareLow(calc.candles[1])
     /\ WickShareLow(calc.candles[2])
     /\ (calc.candles[2].close - calc.candles[1].open) * 100
            > calc.candles[1].open
     /\ (calc.candles[2].close - calc.candles[1].open) * 1000
            <= 25 * calc.candles[1].open)
        => calc.total_score = 100 * 100


----------------------------------------------------------------------------
(* Claims about buy monitoring of a 2BULL pattern (SpecTwoBull) *)

----------------------------------------------------------------------------
(* Claims about the sell monitor (SpecSell).  The exit conditions of a
   candle, as the specification words them, for a sell monitor sm that is
   monitoring. *)

DangerBearishHolds(sm, candle) ==
    /\ sm.auto_exit_large_bearish
    /\ candle.close < candle.open
    /\ candle.is_large
    /\ pnl_at_least(sm.entry_price, candle.close, exit_min_profit)

StopLossHolds(sm, candle) == candle.low <= sm.sl_price

TimeLimitHolds(sm, candle) == sm.entry_candle_count + 1 >= max_candles

ReversalExitHolds(sm, candle) == candle.severity = 3

\* degraded when the recovery-mode handling is reached
Degraded(sm, candle) ==
    sm.recovery_mode \/ (candle.severity >= 2 /\ sm.reduce_tp_on_warning)

ProfitSpike(sm, candle) ==
    pnl_at_least(sm.entry_price, candle.close, spike_trigger)

RecoveryTargetHolds(sm, candle) ==
    /\ Degraded(sm, candle)
    /\ ~ProfitSpike(sm, candle)
    /\ candle.high * 10000 >= sm.entry_price * 10025

TakeProfitHolds(sm, candle) ==
    /\ ~Degraded(sm, candle) \/ ProfitSpike(sm, candle)
    /\ candle.high * 100 >= sm.entry_price * (100 + tp_percent_orig)

QuickExitHolds(sm, candle) ==
    /\ sm.entry_candle_count + 1 = stagnation_candles
    /\ pnl_at_least(sm.entry_price, candle.close, quick_exit_threshold)

FirstExit(sm, candle) ==
    IF DangerBearishHolds(sm, candle) THEN "DANGER_BEARISH"
    ELSE IF StopLossHolds(sm, candle) THEN "STOP_LOSS"
    ELSE IF TimeLimitHolds(sm, candle) THEN "TIME_LIMIT"
    ELSE IF ReversalExitHolds(sm, candle) THEN "REVERSAL_DETECTED"
    ELSE IF RecoveryTargetHolds(sm, candle) THEN "RECOVERY_TP"
    ELSE IF TakeProfitHolds(sm, candle) THEN "TAKE_PROFIT"
    ELSE IF QuickExitHolds(sm, candle) THEN "QUICK_EXIT"
    ELSE "None"

----------------------------------------------------------------------------
(* Claims about the 2BULL detector (SpecDetector) *)

\* C17 as claimed: with only the base thresholds active and no earlier
\* alert, the consecutive stored candles C1(open 100, close 101, turnover
\* 8000, trades 60) and C2(open 101, close 102.5, turnover 9000, trades 70)
\* make the check emit a 2BULL signal whose beauty score is
\* calculate([C1, C2]).
C17_AsClaimed ==
    (/\ calc.fn = "check_2bull_pattern"
     /\ calc.done
     /\ ~calc.filter_ema9_above_ema20
     /\ calc.candles[2].open_time = calc.candles[1].open_time + 1
     /\ calc.candles[1].open = 1000 /\ calc.candles[1].close = 1010
     /\ calc.candles[1].turnover = 8000 /\ calc.candles[1].trades = 60
     /\ calc.candles[2].open = 1010 /\ calc.candles[2].close = 1025
     /\ calc.candles[2].turnover = 9000 /\ calc.candles[2].trades = 70
     /\ ~calc.alerted)
        => /\ calc.emitted
           /\ calc.beauty_score = calculate(calc.candles)

----------------------------------------------------------------------------
(* Claims about the cooldown (SpecCooldown) *)

\* C19 as claimed: every stored cooldown counter is >= 0, and a delivery of
\* a closed candle to an asset in cooldown decrements the asset's counter
\* exactly once if the candle is new and not at all if that candle was
\* already processed; the entry is removed when the counter reaches 0.
C19_AsClaimed ==
    [][\A a \in Assets, open_time \in StreamOpenTimes :
          (process_kline_cooldown(a, open_time)
           /\ is_in_cooldown(cooldowns, a, "5min"))
              => LET counter ==
                         IF candle_exists(db[a], open_time)
                         THEN cooldowns["5min"][a]
                         ELSE cooldowns["5min"][a] - 1
                 IN  /\ \A s \in DOMAIN cooldowns'["5min"] :
                            cooldowns'["5min"][s] >= 0
                     /\ IF counter = 0
                        THEN ~is_in_cooldown(cooldowns', a, "5min")
                        ELSE /\ is_in_cooldown(cooldowns', a, "5min")
                             /\ cooldowns'["5min"][a] = counter]_vars

\* C20 as claimed: after an exit started a cooldown of N candles for an
\* asset, none of the next N closed candles of the asset reaches pattern
\* detection or starts buy monitoring.
C20_AsClaimed ==
    [][\A a \in Assets, open_time \in StreamOpenTimes :
          (/\ process_kline_cooldown(a, open_time)
           /\ ~candle_exists(db[a], open_time)
           /\ calc.elapsed[a] < calc.cooldown_5min_candles)
              => /\ Dispatch(a) # "DETECT"
                 /\ buy_monitor'[a].is_monitoring
                        => buy_monitor[a].is_monitoring]_vars

----------------------------------------------------------------------------
(* Claims about the end of a sell (SpecSell) *)

----------------------------------------------------------------------------
(* Claims about the 5min workers as wired (SpecWired) *)

\* C22 as claimed: when the 5min detector accepts a 2BULL signal with a slot
\* free, the asset's buy monitor is monitoring a 2BULL pattern at the end
\* of that candle step, with monitor_count 0 and no resting limit.
C22_AsClaimed ==
    [][\A a \in Assets :
          check_2bull_pattern_accepts(a)
              => /\ buy_monitor'[a].is_monitoring
                 /\ buy_monitor'[a].monitor_count = 0
                 /\ buy_monitor'[a].limit_orders = <<>>
                 /\ buy_monitor'[a].pattern_type = "2BULL_5min"]_vars

----------------------------------------------------------------------------
(* Claims about pattern detection in the bot as configured (Spec) *)

\* C23: a candle of an asset reaches pattern detection only when neither the
\* asset's buy monitor nor its sell monitor is active, and a buy-monitoring
\* cycle is started by detection only for an asset with no monitor active
\* and no 5min position.
C23_DetectionOnlyWhenIdle ==
    [][\A a \in Assets :
          /\ (check_and_start_ema_pattern(a) \/ start_monitoring(a))
                 => /\ ~buy_monitor[a].is_monitoring
                    /\ ~sell_monitor[a].is_monitoring
                    /\ ~has_position(positions, a, "5min")
          /\ (~buy_monitor[a].is_monitoring /\ buy_monitor'[a].is_monitoring)
                 => /\ ~sell_monitor[a].is_monitoring
                    /\ ~has_position(positions, a, "5min")]_vars

\* an asset that was bought and sold is being monitored again while another
\* asset holds a position
C23_Witness ==
    \E a \in Assets, b \in Assets :
        /\ a # b
        /\ \E i \in 1..Len(executed_orders) : executed_orders[i] = a
        /\ buy_monitor[a].is_monitoring
        /\ ~sell_monitor[a].is_monitoring
        /\ sell_monitor[b].is_monitoring

----------------------------------------------------------------------------
(* Claims about a failing log sink (SpecSink) *)

\* C24 as claimed: when the log sink fails in the middle of a fill or of a
\* sell, the buy monitor, the sell monitor, the positions and the order
\* queue end up as if the sink call had succeeded: after a fill the state
\* is the one process_candle produces, after a sell the sell monitor is
\* inactive and the position removed.
C24_AsClaimed ==
    [][\A a \in Assets :
          /\ \A candle \in Candles :
                (WellFormed(candle) /\ BuyCandle2BullSinkRaises(a, candle))
                    => LET w == bm_process_candle(World(a), a, candle)
                       IN  /\ buy_monitor'[a] = w.bm
                           /\ sell_monitor'[a].is_monitoring = w.sm
                           /\ positions' = w.pos
                           /\ pending_orders' = w.pending
          /\ SellCandleSinkRaises(a)
                => /\ ~sell_monitor'[a].is_monitoring
                   /\ ~has_position(positions', a, "5min")]_vars

----------------------------------------------------------------------------
(* Claims about the order of the tests of process_candle (SpecTwoBull) *)

C27_LimitNeverIncreases ==
    [][\A a \in Assets :
          LET old == buy_monitor[a].limit_orders
              new == buy_monitor'[a].limit_orders
          IN  /\ Len(new) <= 1
              /\ (old = <<>> /\ new # <<>>)
                    => /\ buy_monitor'[a].monitor_count = 1
                       /\ \E candle \in Candles :
                             /\ WellFormed(candle)
                             /\ BuyCandle2BullOn(a, candle)
                             /\ new = <<candle.high>>
              /\ (old # <<>> /\ new # <<>> /\ new # old)
                    => /\ new[1] < old[1]
                       /\ buy_monitor'[a].monitor_count = 2
                       /\ \E candle \in BearishCandles :
                             /\ candle.high < old[1]
                             /\ BuyCandle2BullOn(a, candle)
                             /\ new = <<candle.high>>]_vars

\* a limit placed at 102.10 on candle 1 and lowered to 100.00, the high of
\* a bearish candle 2
C27_Witness ==
    /\ calc.fn = "process_candle"
    /\ ~calc.is_bullish
    /\ calc.ret = "None"
    /\ buy_monitor[calc.symbol].is_monitoring
    /\ buy_monitor[calc.symbol].monitor_count = 2
    /\ buy_monitor[calc.symbol].limit_orders = <<candle_open>>


\* C28: a recursive restart happens on candle 1 only, on a bullish candle
\* that forms a valid 2BULL pair with the last reference candle, and leaves
\* the buy monitor monitoring with monitor_count 0, that pair as reference
\* candles, no resting limit and no pending entry in the order queue; it
\* creates no position and does not start the sell monitor.
C28_RecursiveRestartFrame ==
    [][\A a \in Assets : \A candle \in Candles :
          (/\ buy_monitor[a].is_monitoring
           /\ WellFormed(candle)
           /\ calc'.fn = "process_candle"
           /\ calc'.ret = "RECURSIVE_RESTART"
           /\ calc'.symbol = a
           /\ BuyCandle2BullOn(a, candle))
              => /\ buy_monitor[a].monitor_count = 0
                 /\ candle.is_bullish
                 /\ candle.shape = "RECURSIVE"
                 /\ buy_monitor'[a].is_monitoring
                 /\ buy_monitor'[a].monitor_count = 0
                 /\ buy_monitor'[a].pattern_type = "2BULL_5min"
                 /\ calc'.pattern_candles = <<"c2", "candle">>
                 /\ buy_monitor'[a].limit_orders = <<>>
                 /\ ~buy_monitor'[a].bought
                 /\ a \notin PendingSymbols(pending_orders')
                 /\ positions' = positions
                 /\ ~has_position(positions', a, "5min")
                 /\ ~sell_monitor'[a].is_monitoring]_vars

\* a restart made while another asset holds a position
C28_Witness ==
    /\ calc.fn = "process_candle"
    /\ calc.ret = "RECURSIVE_RESTART"
    /\ buy_monitor[calc.symbol].is_monitoring
    /\ buy_monitor[calc.symbol].monitor_count = 0
    /\ ~has_position(positions, calc.symbol, "5min")
    /\ count_positions(positions, "5min") > 0


----------------------------------------------------------------------------
(* Claims about the EMA-momentum entry (Spec) *)

\* C30 as claimed: the first candle after an EMA-momentum signal enters
\* (position, recorded order, sell monitor) if the entry is admitted; if at
\* that moment the EMA slot ceiling is reached, the monitor ends without
\* recording an order, without creating a position and without starting
\* the sell monitor.
C30_AsClaimed ==
    [][\A a \in Assets :
          BuyCandleEma(a) =>
              /\ ~buy_monitor'[a].is_monitoring
              /\ IF count_positions_by_pattern(positions, "5min", "EMA5min")
                        >= ema_max_positions_5min
                 THEN /\ executed_orders' = executed_orders
                      /\ positions' = positions
                      /\ ~sell_monitor'[a].is_monitoring
                 ELSE /\ executed_orders' = Append(executed_orders, a)
                      /\ has_position(positions', a, "5min")
                      /\ sell_monitor'[a].is_monitoring]_vars

----------------------------------------------------------------------------
(* Further claims about the sell monitor (SpecSell) *)

----------------------------------------------------------------------------
(* Claims about the duplicate check of the 2BULL detector (SpecDedup) *)

\* C32: at most one 2BULL signal is emitted for a closing-candle timestamp.
\* A check of a window whose last candle's timestamp is the last alerted
\* timestamp emits nothing and returns None, and a check that emits, whether
\* it goes on to start monitoring or is blocked by the slot limit, makes
\* that timestamp the last alerted one.
C32_OneSignalPerTimestamp ==
    [][CheckWindow =>
          /\ calc'.signals <= 1
          /\ calc.alerted => calc'.signals = 0
          /\ calc.last_alert_timestamp = <<calc.candles[2].timestamp>>
                => /\ calc'.signals = calc.signals
                   /\ calc'.rets[Len(calc'.rets)] = "None"
          /\ calc'.signals > calc.signals
                => /\ calc'.last_alert_timestamp = <<calc.candles[2].timestamp>>
                   /\ calc'.rets[Len(calc'.rets)] \in {"2BULL_BLOCKED", "TypeError"}]_vars

\* a blocked alert, and the same window suppressed on the next check
C32_Witness ==
    /\ calc.fn = "check_2bull_pattern"
    /\ calc.rets = <<"2BULL_BLOCKED", "None">>
    /\ calc.signals = 1
    /\ calc.last_alert_timestamp = <<calc.candles[2].timestamp>>

----------------------------------------------------------------------------
(* Claims about the EMA-momentum trigger (SpecEma) *)

\* C33 as claimed: on neither timeframe does the EMA-momentum trigger fire
\* for a candle whose turnover is below that timeframe's floor
\* (min_candle_volume_1min, min_candle_volume_5min).
C33_AsClaimed ==
    (/\ calc.fn = "check_ema_momentum_pattern"
     /\ calc.done
     /\ calc.turnover < (IF calc.timeframe = "1min"
                         THEN min_candle_volume_1min
                         ELSE min_candle_volume_5min))
        => ~calc.detected

----------------------------------------------------------------------------
(* Claims about gap recovery *)

\* C34: when fetching the missing candles fails, or the gap exceeds
\* max_gap_minutes, recover_gap changes nothing: the stored candles and the
\* indicators of the last candle are as before the attempt, and the next
\* live candle is appended from that unchanged table.
C34_FailedRecoveryChangesNothing ==
    [][/\ \A current_time \in GapTimes, fetched \in GapFetches(calc.rows) :
            (/\ calc.fn = "recover_gap"
             /\ \/ fetched = <<>>
                \/ detect_gap(calc.rows, current_time).gap_minutes
                       > max_gap_minutes
             /\ RecoverGap(current_time, fetched))
            => /\ calc'.rows = calc.rows
               /\ Indicators(latest_row(calc'.rows))
                      = Indicators(latest_row(calc.rows))
               /\ calc'.trace[Len(calc'.trace)] # "RECOVERED"
       /\ \A candle \in GapCandles :
            (/\ calc.fn = "recover_gap"
             /\ calc.trace # <<>>
             /\ calc.trace[Len(calc.trace)] \in {"TOO_LARGE", "FETCH_FAILED"}
             /\ LiveCandle(candle))
            => calc'.rows = add_candle_row(calc.before, candle)]_vars

\* a failed fetch, then a gap that is too large, then a live candle
C34_Witness ==
    /\ calc.fn = "recover_gap"
    /\ calc.trace = <<"FETCH_FAILED", "TOO_LARGE", "LIVE">>
    /\ Cardinality(calc.rows) = 2
    /\ calc.rows = add_candle_row(calc.before, latest_row(calc.rows))

----------------------------------------------------------------------------
(* Claims about positions and monitors *)

\* the buy monitor of asset a is monitoring with a limit order placed
HoldsLimit(a) ==
    buy_monitor[a].is_monitoring /\ buy_monitor[a].limit_orders # <<>>

\* C35 as claimed: at the end of every candle step an asset has a 5min
\* position if and only if its buy monitor holds a resting limit (the
\* position's status is LIMIT_PENDING) or its sell monitor is active (status
\* SELL_MONITORING).  It holds of every step in which the sink accepts the
\* messages (SpecTwoBull, Spec); a fill whose message the sink refuses leaves
\* the position without either.
C35_AsClaimed ==
    \A a \in Assets :
        /\ has_position(positions, a, "5min")
              <=> (HoldsLimit(a) \/ sell_monitor[a].is_monitoring)
        /\ has_position(positions, a, "5min")
              => positions["5min"][a].status =
                     (IF sell_monitor[a].is_monitoring THEN "SELL_MONITORING"
                      ELSE "LIMIT_PENDING")

----------------------------------------------------------------------------
(* Claims about the take-profit target and recovery mode *)

\* C37: while a position is monitored, tp_price is entry x (1 + TP_orig%)
\* exactly when recovery_mode is false and entry x (1 + recovery_tp%) exactly
\* when recovery_mode is true, after any sequence of stagnation degrade,
\* early reversal-warning degrade and spike revert.
C37_TargetFollowsMode ==
    \A a \in Assets :
        sell_monitor[a].is_monitoring
          => LET sm == sell_monitor[a]
             IN  /\ sm.tp_price = price_plus(sm.entry_price,
                                             Frac(tp_percent_orig, 1))
                       <=> ~sm.recovery_mode
                 /\ sm.tp_price = price_plus(sm.entry_price, recovery_tp)
                       <=> sm.recovery_mode

\* past the stagnation candle in standard mode: the monitor was degraded and
\* a profit spike has restored the original target
C37_Witness ==
    /\ sell_monitor[TradedAsset].is_monitoring
    /\ sell_monitor[TradedAsset].entry_candle_count > stagnation_candles
    /\ ~sell_monitor[TradedAsset].recovery_mode
    /\ sell_monitor[TradedAsset].tp_price = 10600
    /\ sell_monitor[TradedAsset].reduce_tp_on_warning

\* C38 as claimed: with recovery mode disabled the sell monitor never enters
\* recovery mode, and every candle whose high reaches the original
\* take-profit price, with no higher-priority exit, exits with TAKE_PROFIT.
C38_AsClaimed ==
    /\ [](\A a \in Assets :
             sell_monitor[a].is_monitoring => ~sell_monitor[a].recovery_mode)
    /\ [][\A a \in Assets, candle \in SellCandles :
             (/\ sell_monitor[a].is_monitoring
              /\ ~sell_monitor[a].recovery_mode_enabled
              /\ WellFormedSell(candle)
              /\ candle.high * 100
                     >= sell_monitor[a].entry_price * (100 + tp_percent_orig)
              /\ ~DangerBearishHolds(sell_monitor[a], candle)
              /\ ~StopLossHolds(sell_monitor[a], candle)
              /\ ~TimeLimitHolds(sell_monitor[a], candle)
              /\ ~ReversalExitHolds(sell_monitor[a], candle)
              /\ SellCandleOn(a, candle))
             => /\ ~sell_monitor'[a].is_monitoring
                /\ sell_monitor'[a].exit_reason = "TAKE_PROFIT"]_vars

----------------------------------------------------------------------------
(* Claims about concurrent requests to the OrderQueue *)

\* the request_order calls made since construction come from pairwise
\* distinct assets with pairwise distinct scores, and nothing else has
\* touched the queue
DistinctRequests ==
    /\ queue_log_ok
    /\ queue_log # <<>>
    /\ \A i, j \in 1..Len(queue_log) :
           i # j => /\ queue_log[i].symbol # queue_log[j].symbol
                    /\ queue_log[i].beauty_score # queue_log[j].beauty_score

\* C39: request_order runs under the queue's lock, so concurrent calls take
\* effect one after the other in some order.  Whatever that order, after
\* requests of distinct assets with pairwise distinct scores on an empty
\* queue exactly one order is pending, and it is the request with the
\* highest score.
C39_HighestWinsAnyOrder ==
    DistinctRequests
      => /\ Len(pending_orders) = 1
         /\ \E i \in 1..Len(queue_log) :
               /\ \A j \in 1..Len(queue_log) :
                      queue_log[j].beauty_score <= queue_log[i].beauty_score
               /\ pending_orders[1].symbol = queue_log[i].symbol
               /\ pending_orders[1].beauty_score = queue_log[i].beauty_score
               /\ queue_log[i].ret = "APPROVED"

\* three assets have asked, the highest score neither first nor last: the
\* second request displaced the first and the third lost against it
C39_Witness ==
    /\ DistinctRequests
    /\ Len(queue_log) = 3
    /\ queue_log[2].beauty_score > queue_log[1].beauty_score
    /\ queue_log[2].beauty_score > queue_log[3].beauty_score
    /\ queue_log[3].ret = "REJECTED_COLLISION"
    /\ PendingSymbols(pending_orders) = {queue_log[2].symbol}

----------------------------------------------------------------------------
(* Claims about the limit of a continuing buy monitor *)

\* C40 as claimed: whenever 2BULL buy monitoring continues past its first
\* candle (monitor_count >= 1 and still monitoring) a limit is resting, and
\* no process_candle returns the abort reason NO_LIMIT_ORDER.  It holds of
\* every step in which the sink accepts the messages (SpecTwoBull); a fill
\* whose message the sink refuses pops the limit and leaves the monitor
\* active, and the next candle aborts with NO_LIMIT_ORDER.
C40_AsClaimed ==
    /\ \A a \in Assets :
           (/\ buy_monitor[a].is_monitoring
            /\ buy_monitor[a].pattern_type = "2BULL_5min"
            /\ buy_monitor[a].monitor_count >= 1)
             => buy_monitor[a].limit_orders # <<>>
    /\ calc.fn = "process_candle" => calc.ret # "ABORT_NO_LIMIT_ORDER"

====
